---- MODULE Spec2Model ----
(***************************************************************************)
(* Verification model of the StyleForge token engine: the colour and       *)
(* dimension converters (src/src/core/colorUtils.ts) and the CSS parser    *)
(* and categorizer (src/unnamed/part_000, the parser module that imports   *)
(* from './colorUtils').                                                   *)
(*                                                                         *)
(* Strings are TLA+ strings, read character by character with SubSeq.      *)
(* A JavaScript number is a record: Num(n) holds the value n / Scale in    *)
(* fixed point, NaN is a value of its own.  null and undefined are values  *)
(* of their own as well, and an exception is the value Throw.  A regular   *)
(* expression is a sequence of items run by a backtracking matcher.        *)
(***************************************************************************)
EXTENDS Integers, Sequences, FiniteSets, TLC

VARIABLES
    vars,      \* categorizeTokens: the input list (CSSVariable[])
    idx,       \* categorizeTokens: index of the next variable of the for loop
    result,    \* categorizeTokens: the ParsedTokenSet being filled
    hoisted,   \* categorizeTokens: the var locals lineHeight, letterSpacing, fontWeight
    pc,        \* categorizeTokens: "idle" | "loop" | "done" | "threw"
    src,       \* the stylesheet a parser call was given, as its parts
    fn,        \* the pure function called last ("none" before the first call)
    arg,       \* its argument (a string)
    ret,       \* what it returned
    adapters,  \* registry: the Map of registered adapters, id -> dependencies
    run,       \* code.ts: the handleImport run (resolved adapters, index, position)
    posted,    \* the messages posted to the UI and the progress reports, in order
    doc,       \* the Figma document: collections, variables and styles
    net,       \* fetcher.ts: the cache Map and the calls in flight
    store      \* ui/store.ts: the store state

parserVars == <<vars, idx, result, hoisted, pc, src, fn, arg, ret>>
pluginVars == <<run, posted, doc, net, store>>
allVars == <<parserVars, adapters, pluginVars>>

(***************************************************************************)
(* JavaScript values                                                       *)
(***************************************************************************)
\* Fixed-point scale of the numbers: Num(n) stands for n / Scale.
Scale == 10 ^ 4

Num(n) == [t |-> "num", v |-> n]
NaN == [t |-> "NaN"]
Null == [t |-> "null"]
Undefined == [t |-> "undefined"]
Throw == [t |-> "throw"]

IsNum(x) == x.t = "num"
isNaN(x) == x.t = "NaN"

\* x * k for an integer k, x / k, x * y, x / y on numbers; NaN propagates.
MulInt(x, k) == IF IsNum(x) THEN Num(x.v * k) ELSE NaN
SDiv(a, b) == IF a >= 0 THEN a \div b ELSE -((-a) \div b)
DivInt(x, k) == IF IsNum(x) THEN Num(SDiv(x.v, k)) ELSE NaN
Mul(x, y) == IF IsNum(x) /\ IsNum(y) THEN Num(SDiv(x.v * y.v, Scale)) ELSE NaN
\* JavaScript division: x / 0 is an infinity (NaN for 0 / 0); the callers
\* modelled here guard the divisor, so a zero divisor is reported as NaN.
Div(x, y) ==
    IF IsNum(x) /\ IsNum(y) /\ y.v > 0 THEN Num(SDiv(x.v * Scale, y.v))
    ELSE IF IsNum(x) /\ IsNum(y) /\ y.v < 0 THEN Num(-SDiv(x.v * Scale, -y.v))
    ELSE NaN
Add(x, y) == IF IsNum(x) /\ IsNum(y) THEN Num(x.v + y.v) ELSE NaN
Sub(x, y) == IF IsNum(x) /\ IsNum(y) THEN Num(x.v - y.v) ELSE NaN
Abs(x) == IF IsNum(x) THEN Num(IF x.v < 0 THEN -x.v ELSE x.v) ELSE NaN

(***************************************************************************)
(* String built-ins                                                        *)
(***************************************************************************)
Ch(s, i) == SubSeq(s, i, i)
Digits == {"0", "1", "2", "3", "4", "5", "6", "7", "8", "9"}
IsDigit(c) == c \in Digits
\* \s, as far as the inputs go: space, newline, tab.
Whitespace == {" ", "\n", "\t"}
IsWs(c) == c \in Whitespace
LowerLetters == "abcdefghijklmnopqrstuvwxyz"
UpperLetters == "ABCDEFGHIJKLMNOPQRSTUVWXYZ"

StartsWith(s, p) == Len(p) <= Len(s) /\ SubSeq(s, 1, Len(p)) = p
EndsWith(s, p) == Len(p) <= Len(s) /\ SubSeq(s, Len(s) - Len(p) + 1, Len(s)) = p
StartsWithAt(s, i, p) == i + Len(p) - 1 <= Len(s) /\ SubSeq(s, i, i + Len(p) - 1) = p

\* Position of the first occurrence of p in s at or after from, 0 when none.
RECURSIVE IndexFrom(_, _, _)
IndexFrom(s, p, from) ==
    IF from + Len(p) - 1 > Len(s) THEN 0
    ELSE IF SubSeq(s, from, from + Len(p) - 1) = p THEN from
    ELSE IndexFrom(s, p, from + 1)
IndexOf(s, p) == IndexFrom(s, p, 1)
Includes(s, p) == IndexOf(s, p) # 0

\* s.replace(p, r) with a string pattern: the first occurrence only.
ReplaceAt(s, i, n, r) ==
    IF i = 0 THEN s ELSE SubSeq(s, 1, i - 1) \o r \o SubSeq(s, i + n, Len(s))
ReplaceFirst(s, p, r) == ReplaceAt(s, IndexOf(s, p), Len(p), r)

\* s.replace(/^p/, r): the pattern anchored at the start.
ReplacePrefix(s, p, r) ==
    IF StartsWith(s, p) THEN r \o SubSeq(s, Len(p) + 1, Len(s)) ELSE s

\* Index after the run of whitespace that starts at i, and before the run
\* that ends at i.
RECURSIVE SkipWs(_, _)
SkipWs(s, i) == IF i <= Len(s) /\ IsWs(Ch(s, i)) THEN SkipWs(s, i + 1) ELSE i
RECURSIVE SkipWsBack(_, _)
SkipWsBack(s, i) == IF i >= 1 /\ IsWs(Ch(s, i)) THEN SkipWsBack(s, i - 1) ELSE i

Trim(s) == SubSeq(s, SkipWs(s, 1), SkipWsBack(s, Len(s)))

LowerChar(c, k) == IF k = 0 THEN c ELSE Ch(LowerLetters, k)
RECURSIVE ToLowerCase(_)
ToLowerCase(s) ==
    IF s = "" THEN ""
    ELSE LowerChar(Ch(s, 1), IndexOf(UpperLetters, Ch(s, 1)))
             \o ToLowerCase(SubSeq(s, 2, Len(s)))

\* s.split(sep) for a one-character separator: always at least one part.
RECURSIVE SplitFrom(_, _, _)
SplitFrom(s, sep, from) ==
    IF IndexFrom(s, sep, from) = 0 THEN <<SubSeq(s, from, Len(s))>>
    ELSE <<SubSeq(s, from, IndexFrom(s, sep, from) - 1)>>
             \o SplitFrom(s, sep, IndexFrom(s, sep, from) + 1)
Split(s, sep) == SplitFrom(s, sep, 1)

\* A collapse that knows the space only, to set against CollapseWs.
RECURSIVE CollapseSpaces(_, _)
CollapseSpaces(s, i) ==
    IF i > Len(s) THEN ""
    ELSE IF Ch(s, i) = " " /\ i < Len(s) /\ Ch(s, i + 1) = " " THEN CollapseSpaces(s, i + 1)
    ELSE Ch(s, i) \o CollapseSpaces(s, i + 1)

\* s.replace(/\s+/g, ' '): every run of whitespace becomes one space.
RECURSIVE CollapseWs(_, _)
CollapseWs(s, i) ==
    IF i > Len(s) THEN ""
    ELSE IF IsWs(Ch(s, i)) THEN " " \o CollapseWs(s, SkipWs(s, i))
    ELSE Ch(s, i) \o CollapseWs(s, i + 1)

\* s.split(/\s+/): the parts between the runs of whitespace.
RECURSIVE SplitWsFrom(_, _, _)
SplitWsFrom(s, from, i) ==
    IF i > Len(s) THEN <<SubSeq(s, from, Len(s))>>
    ELSE IF IsWs(Ch(s, i))
         THEN <<SubSeq(s, from, i - 1)>> \o SplitWsFrom(s, SkipWs(s, i), SkipWs(s, i))
         ELSE SplitWsFrom(s, from, i + 1)
SplitWs(s) == SplitWsFrom(s, 1, 1)

(***************************************************************************)
(* Regular expressions                                                     *)
(*                                                                         *)
(* A pattern is a sequence of items: a literal, a character class with its *)
(* quantifier, the start or the end of a capture group, an optional        *)
(* sub-pattern, an alternation, or an anchor.  MatchFrom is the            *)
(* backtracking matcher of the JavaScript engine: a greedy quantifier      *)
(* tries the longest run first, a lazy one the shortest, an optional       *)
(* sub-pattern is tried before its absence, alternatives in their order.   *)
(***************************************************************************)
Lit(str) == [k |-> "lit", s |-> str]
Class(chars, negated, least, unbounded, isLazy) ==
    [k |-> "cls", cs |-> chars, neg |-> negated, min |-> least, many |-> unbounded,
     lazy |-> isLazy]
One(chars) == Class(chars, FALSE, 1, FALSE, FALSE)
Maybe(chars) == Class(chars, FALSE, 0, FALSE, FALSE)
Star(chars) == Class(chars, FALSE, 0, TRUE, FALSE)
Plus(chars) == Class(chars, FALSE, 1, TRUE, FALSE)
PlusNot(chars) == Class(chars, TRUE, 1, TRUE, FALSE)
LazyStarNot(chars) == Class(chars, TRUE, 0, TRUE, TRUE)
Open(n) == [k |-> "open", g |-> n]
Close(n) == [k |-> "close", g |-> n]
Opt(sub) == [k |-> "opt", p |-> sub]
Alt(subs) == [k |-> "alt", ps |-> subs]
Bol == [k |-> "bol"]
Eol == [k |-> "eol"]

\* The character classes of the patterns.
DigitDot == Digits \cup {"."}
WordChars ==
    Digits \cup {"_"} \cup {Ch(LowerLetters, k) : k \in 1..26}
        \cup {Ch(UpperLetters, k) : k \in 1..26}
HexDigits == Digits \cup {"a", "b", "c", "d", "e", "f", "A", "B", "C", "D", "E", "F"}

MaxGroups == 4
NoCaps == [n \in 1..MaxGroups |-> <<0, 0>>]
Fail == [ok |-> FALSE, end |-> 0, caps |-> NoCaps]

InClass(it, c) == (c \in it.cs) # it.neg

\* Length of the run of characters of the class that starts at i, at most
\* one character long unless the quantifier is unbounded.
RECURSIVE Run(_, _, _, _)
Run(it, s, i, n) ==
    IF i + n <= Len(s) /\ (it.many \/ n = 0) /\ InClass(it, Ch(s, i + n))
    THEN Run(it, s, i, n + 1)
    ELSE n

RECURSIVE MatchFrom(_, _, _, _)
RECURSIVE Repeat(_, _, _, _, _, _, _)
RECURSIVE AltFrom(_, _, _, _, _, _)

\* The rest of the pattern after n characters of the class, and on failure
\* after the next count: one fewer when greedy, one more when lazy.
Repeat(it, rest, s, i, caps, n, longest) ==
    IF n < it.min \/ n > longest THEN Fail
    ELSE LET r == MatchFrom(rest, s, i + n, caps)
         IN  IF r.ok THEN r
             ELSE Repeat(it, rest, s, i, caps, IF it.lazy THEN n + 1 ELSE n - 1, longest)

AltFrom(subs, j, rest, s, i, caps) ==
    IF j > Len(subs) THEN Fail
    ELSE LET r == MatchFrom(subs[j] \o rest, s, i, caps)
         IN  IF r.ok THEN r ELSE AltFrom(subs, j + 1, rest, s, i, caps)

RepeatFirst(it, rest, s, i, caps, longest) ==
    Repeat(it, rest, s, i, caps, IF it.lazy THEN it.min ELSE longest, longest)

MatchItem(it, rest, s, i, caps) ==
    CASE it.k = "lit" ->
             IF StartsWithAt(s, i, it.s) THEN MatchFrom(rest, s, i + Len(it.s), caps)
             ELSE Fail
      [] it.k = "cls" -> RepeatFirst(it, rest, s, i, caps, Run(it, s, i, 0))
      [] it.k = "open" -> MatchFrom(rest, s, i, [caps EXCEPT ![it.g] = <<i, 0>>])
      [] it.k = "close" -> MatchFrom(rest, s, i, [caps EXCEPT ![it.g] = <<@[1], i>>])
      [] it.k = "opt" ->
             LET r == MatchFrom(it.p \o rest, s, i, caps)
             IN  IF r.ok THEN r ELSE MatchFrom(rest, s, i, caps)
      [] it.k = "alt" -> AltFrom(it.ps, 1, rest, s, i, caps)
      [] it.k = "bol" -> IF i = 1 THEN MatchFrom(rest, s, i, caps) ELSE Fail
      [] it.k = "eol" -> IF i = Len(s) + 1 THEN MatchFrom(rest, s, i, caps) ELSE Fail

MatchFrom(items, s, i, caps) ==
    IF items = <<>> THEN [ok |-> TRUE, end |-> i, caps |-> caps]
    ELSE MatchItem(Head(items), Tail(items), s, i, caps)

\* What exec and match return: the groups as strings, "" for a group that
\* took no part (undefined in JavaScript, and as falsy as ""), the position
\* of the match and the position after it.
Group(s, c) == IF c[2] = 0 THEN "" ELSE SubSeq(s, c[1], c[2] - 1)
NoMatch == [ok |-> FALSE, at |-> 0, end |-> 0, g |-> <<"", "", "", "">>]
MatchResult(s, p, r) ==
    [ok |-> TRUE, at |-> p, end |-> r.end,
     g |-> [n \in 1..MaxGroups |-> Group(s, r.caps[n])]]

\* The leftmost match at or after from.
RECURSIVE SearchFrom(_, _, _)
SearchFrom(re, s, from) ==
    IF from > Len(s) + 1 THEN NoMatch
    ELSE LET r == MatchFrom(re, s, from, NoCaps)
         IN  IF r.ok THEN MatchResult(s, from, r) ELSE SearchFrom(re, s, from + 1)

Match(re, s) == SearchFrom(re, s, 1)

(***************************************************************************)
(* parseFloat, parseInt(_, 16), String(number)                             *)
(***************************************************************************)
DigitVal(c) == IndexOf("0123456789", c) - 1

RECURSIVE DigitsToInt(_)
DigitsToInt(s) ==
    IF s = "" THEN 0
    ELSE DigitsToInt(SubSeq(s, 1, Len(s) - 1)) * 10 + DigitVal(Ch(s, Len(s)))

\* The fraction digits as a count of 1 / Scale: the first four, zero padded.
FracToInt(s) == DigitsToInt(SubSeq(s \o "0000", 1, 4))

Signed(sign, mag) == IF sign = "-" THEN -mag ELSE mag

\* parseFloat: the longest prefix, after leading whitespace, that is a decimal
\* literal (sign, digits, '.', digits); NaN when it has no digit.  Exponents
\* and Infinity are not modelled.
FloatPrefix ==
    <<Bol, Star(Whitespace), Open(1), Maybe({"-", "+"}), Close(1),
      Open(2), Star(Digits), Close(2),
      Opt(<<Lit("."), Open(3), Star(Digits), Close(3)>>)>>
FloatOf(m) ==
    IF m.g[2] = "" /\ m.g[3] = "" THEN NaN
    ELSE Num(Signed(m.g[1], DigitsToInt(m.g[2]) * Scale + FracToInt(m.g[3])))
parseFloat(s) == FloatOf(Match(FloatPrefix, s))

HexVal(c) ==
    IF IsDigit(c) THEN DigitVal(c)
    ELSE 9 + IndexOf("abcdef", c) + IndexOf("ABCDEF", c)

RECURSIVE HexToInt(_)
HexToInt(s) ==
    IF s = "" THEN 0
    ELSE HexToInt(SubSeq(s, 1, Len(s) - 1)) * 16 + HexVal(Ch(s, Len(s)))

\* parseInt(s, 16) as a number, NaN when no hex digit leads: leading
\* whitespace, a sign and a 0x prefix are skipped as JavaScript does.
HexPrefix ==
    <<Bol, Star(Whitespace), Open(1), Maybe({"-", "+"}), Close(1),
      Opt(<<Lit("0"), One({"x", "X"})>>), Open(2), Star(HexDigits), Close(2)>>
HexOf(m) ==
    IF m.g[2] = "" THEN NaN ELSE Num(Signed(m.g[1], HexToInt(m.g[2])) * Scale)
parseInt16(s) == HexOf(Match(HexPrefix, s))

RECURSIVE NatToString(_)
NatToString(n) ==
    IF n < 10 THEN Ch("0123456789", n + 1)
    ELSE NatToString(n \div 10) \o Ch("0123456789", (n % 10) + 1)

RECURSIVE StripTrailingZeros(_)
StripTrailingZeros(s) ==
    IF s # "" /\ Ch(s, Len(s)) = "0" THEN StripTrailingZeros(SubSeq(s, 1, Len(s) - 1)) ELSE s

\* String(x) for a number: the integer part, then the fraction without its
\* trailing zeros.
Magnitude(n) == IF n < 0 THEN -n ELSE n
FractionString(frac) == IF frac = "" THEN "" ELSE "." \o frac
NumberToString(x) ==
    IF ~IsNum(x) THEN "NaN"
    ELSE (IF x.v < 0 THEN "-" ELSE "") \o NatToString(Magnitude(x.v) \div Scale)
             \o FractionString(StripTrailingZeros(
                    SubSeq(NatToString(Scale + (Magnitude(x.v) % Scale)), 2, 5)))

(***************************************************************************)
(* colorUtils.ts: the colour converters                                    *)
(***************************************************************************)
\* Comparisons of numbers: false whenever an operand is NaN.
Lt(x, y) == IsNum(x) /\ IsNum(y) /\ x.v < y.v
Gt(x, y) == IsNum(x) /\ IsNum(y) /\ x.v > y.v

\* Math.max(0, Math.min(1, n)); NaN stays NaN.
clamp01(n) ==
    IF ~IsNum(n) THEN NaN
    ELSE Num(IF n.v < 0 THEN 0 ELSE IF n.v > Scale THEN Scale ELSE n.v)

\* Math.sin of an angle in degrees, by Bhaskara's rational approximation
\* (error below 0.002); d is the angle in hundredths of a degree.
HalfTurn(m) == IF m >= 18000 THEN m - 18000 ELSE m
Bhaskara(q) == (4 * q) \div ((405000000 - q) \div Scale)
SinCenti(d) ==
    (IF d % 36000 >= 18000 THEN -1 ELSE 1)
        * Bhaskara(HalfTurn(d % 36000) * (18000 - HalfTurn(d % 36000)))
SinDeg(H) == IF IsNum(H) THEN Num(SinCenti(SDiv(H.v, 100))) ELSE NaN
CosDeg(H) == IF IsNum(H) THEN Num(SinCenti(SDiv(H.v, 100) + 9000)) ELSE NaN

\* The sRGB transfer curve above its linear segment, as knots <<c, value>>
\* in 1 / Scale, interpolated linearly (Math.pow(c, 1 / 2.4) is not
\* computable in integers); above the last knot the curve is continued
\* with slope 1, which clamp01 cuts to 1 as it does the exact value.
SrgbKnots ==
    << <<31, 404>>, <<100, 999>>, <<200, 1517>>, <<400, 2209>>, <<700, 2934>>,
       <<1000, 3492>>, <<1500, 4236>>, <<2000, 4845>>, <<3000, 5838>>,
       <<4000, 6652>>, <<5000, 7354>>, <<6000, 7977>>, <<7000, 8543>>,
       <<8000, 9063>>, <<9000, 9547>>, <<10000, 10000>> >>

Interpolate(c, lo, hi) ==
    Num(lo[2] + ((c - lo[1]) * (hi[2] - lo[2])) \div (hi[1] - lo[1]))
KnotBelow(c) ==
    CHOOSE j \in 1..(Len(SrgbKnots) - 1) : SrgbKnots[j][1] <= c /\ c < SrgbKnots[j + 1][1]
linearToSrgb(c) ==
    IF ~IsNum(c) THEN NaN
    ELSE IF c.v <= 31 THEN Num(SDiv(c.v * 1292, 100))
    ELSE IF c.v >= Scale THEN Num(c.v)
    ELSE Interpolate(c.v, SrgbKnots[KnotBelow(c.v)], SrgbKnots[KnotBelow(c.v) + 1])

Cube(x) == Mul(Mul(x, x), x)

\* oklch -> oklab -> LMS -> linear sRGB -> sRGB; r, g, b are clamped, alpha
\* is stored as given.
LmsToRgba(l, m, s, alpha) ==
    [r |-> clamp01(linearToSrgb(
               Add(Sub(Mul(Num(40767), l), Mul(Num(33077), m)), Mul(Num(2310), s)))),
     g |-> clamp01(linearToSrgb(
               Sub(Sub(Mul(Num(26098), m), Mul(Num(12684), l)), Mul(Num(3413), s)))),
     b |-> clamp01(linearToSrgb(
               Sub(Sub(Mul(Num(17076), s), Mul(Num(42), l)), Mul(Num(7034), m)))),
     a |-> alpha]
OklabToRgba(L, a_, b_, alpha) ==
    LmsToRgba(Cube(Add(Add(L, Mul(Num(3963), a_)), Mul(Num(2158), b_))),
              Cube(Sub(Sub(L, Mul(Num(1056), a_)), Mul(Num(639), b_))),
              Cube(Sub(Sub(L, Mul(Num(895), a_)), Mul(Num(12915), b_))),
              alpha)
oklchToRgba(L, C, H, alpha) == OklabToRgba(L, Mul(C, CosDeg(H)), Mul(C, SinDeg(H)), alpha)

\* hsl -> sRGB by chroma, hue segment and lightness offset; r, g, b are
\* clamped, alpha is stored as given.
One1 == Num(Scale)
Degrees(n) == Num(n * Scale)
Mod2(x) == IF IsNum(x) THEN Num(x.v % (2 * Scale)) ELSE NaN
HslSector(h, c, x) ==
    IF Lt(h, Degrees(60)) THEN <<c, x, Num(0)>>
    ELSE IF Lt(h, Degrees(120)) THEN <<x, c, Num(0)>>
    ELSE IF Lt(h, Degrees(180)) THEN <<Num(0), c, x>>
    ELSE IF Lt(h, Degrees(240)) THEN <<Num(0), x, c>>
    ELSE IF Lt(h, Degrees(300)) THEN <<x, Num(0), c>>
    ELSE <<c, Num(0), x>>
HslColor(rgb, m, alpha) ==
    [r |-> clamp01(Add(rgb[1], m)),
     g |-> clamp01(Add(rgb[2], m)),
     b |-> clamp01(Add(rgb[3], m)),
     a |-> alpha]
HslFromChroma(h, l, c, alpha) ==
    HslColor(HslSector(h, c, Mul(c, Sub(One1, Abs(Sub(Mod2(DivInt(h, 60)), One1))))),
             Sub(l, DivInt(c, 2)), alpha)
HslScaled(h, s, l, alpha) ==
    HslFromChroma(h, l, Mul(Sub(One1, Abs(Sub(MulInt(l, 2), One1))), s), alpha)
hslToRgba(h, s, l, alpha) == HslScaled(h, DivInt(s, 100), DivInt(l, 100), alpha)

\* hex.slice(from, to) with 0-based bounds, cut to the string.
JsSlice(s, from, to) ==
    SubSeq(s, from + 1, IF to > Len(s) THEN Len(s) ELSE to)

\* '#' removed, 3 and 4 digits doubled, then three or four pairs read with
\* parseInt(_, 16) / 255; nothing checks that the digits are hex digits or
\* that there are 3, 4, 6 or 8 of them.
Twice(s, i) == Ch(s, i) \o Ch(s, i)
\* A 3-digit form expanded by repeating the digit group.
Expand3Repeated(hex) == IF Len(hex) = 3 THEN hex \o hex ELSE hex
Expand3(hex) ==
    IF Len(hex) = 3 THEN Twice(hex, 1) \o Twice(hex, 2) \o Twice(hex, 3) ELSE hex
Expand4(hex) ==
    IF Len(hex) = 4 THEN Twice(hex, 1) \o Twice(hex, 2) \o Twice(hex, 3) \o Twice(hex, 4)
    ELSE hex
HexChannels(hex) ==
    [r |-> DivInt(parseInt16(JsSlice(hex, 0, 2)), 255),
     g |-> DivInt(parseInt16(JsSlice(hex, 2, 4)), 255),
     b |-> DivInt(parseInt16(JsSlice(hex, 4, 6)), 255),
     a |-> IF Len(hex) = 8 THEN DivInt(parseInt16(JsSlice(hex, 6, 8)), 255)
           ELSE Num(Scale)]
hexToRgba(hex) == HexChannels(Expand4(Expand3(ReplaceFirst(hex, "#", ""))))

\* An alpha group: 1 when the group took no part, a percentage when it
\* ends in '%', a fraction otherwise.
AlphaOf(g) ==
    IF g = "" THEN Num(Scale)
    ELSE IF EndsWith(g, "%") THEN DivInt(parseFloat(g), 100)
    ELSE parseFloat(g)

\* /rgba?\(\s*([\d.]+)\s*,?\s*([\d.]+)\s*,?\s*([\d.]+)\s*(?:[,/]\s*([\d.%]+))?\s*\)/
RgbPattern ==
    <<Lit("rgb"), Maybe({"a"}), Lit("("), Star(Whitespace),
      Open(1), Plus(DigitDot), Close(1), Star(Whitespace), Maybe({","}), Star(Whitespace),
      Open(2), Plus(DigitDot), Close(2), Star(Whitespace), Maybe({","}), Star(Whitespace),
      Open(3), Plus(DigitDot), Close(3), Star(Whitespace),
      Opt(<<One({",", "/"}), Star(Whitespace),
            Open(4), Plus(DigitDot \cup {"%"}), Close(4)>>),
      Star(Whitespace), Lit(")")>>

RgbColor(match) ==
    IF ~match.ok THEN Null
    ELSE [r |-> clamp01(DivInt(parseFloat(match.g[1]), 255)),
          g |-> clamp01(DivInt(parseFloat(match.g[2]), 255)),
          b |-> clamp01(DivInt(parseFloat(match.g[3]), 255)),
          a |-> clamp01(AlphaOf(match.g[4]))]
rgbStringToRgba(str) == RgbColor(Match(RgbPattern, str))

\* /oklch\(\s*([\d.]+)%?\s+([\d.]+)\s+([\d.]+)\s*(?:\/\s*([\d.]+%?))?\s*\)/
OklchPattern ==
    <<Lit("oklch("), Star(Whitespace), Open(1), Plus(DigitDot), Close(1), Maybe({"%"}),
      Plus(Whitespace), Open(2), Plus(DigitDot), Close(2),
      Plus(Whitespace), Open(3), Plus(DigitDot), Close(3), Star(Whitespace),
      Opt(<<Lit("/"), Star(Whitespace), Open(4), Plus(DigitDot), Maybe({"%"}), Close(4)>>),
      Star(Whitespace), Lit(")")>>

\* /hsla?\(\s*([\d.]+)\s*[,\s]\s*([\d.]+)%?\s*[,\s]\s*([\d.]+)%?
\*   \s*(?:[,/]\s*([\d.]+%?))?\s*\)/
HslPattern ==
    <<Lit("hsl"), Maybe({"a"}), Lit("("), Star(Whitespace),
      Open(1), Plus(DigitDot), Close(1),
      Star(Whitespace), One(Whitespace \cup {","}), Star(Whitespace),
      Open(2), Plus(DigitDot), Close(2), Maybe({"%"}),
      Star(Whitespace), One(Whitespace \cup {","}), Star(Whitespace),
      Open(3), Plus(DigitDot), Close(3), Maybe({"%"}), Star(Whitespace),
      Opt(<<One({",", "/"}), Star(Whitespace),
            Open(4), Plus(DigitDot), Maybe({"%"}), Close(4)>>),
      Star(Whitespace), Lit(")")>>

\* if (L > 1) L /= 100
\* The same with the test L >= 1.
OklchLightnessFromOne(L) == IF IsNum(L) /\ L.v >= Scale THEN DivInt(L, 100) ELSE L
OklchLightness(L) == IF Gt(L, Num(Scale)) THEN DivInt(L, 100) ELSE L

\* The keys of the `named` object literal, and the keys every object
\* literal inherits from Object.prototype that survive toLowerCase():
\* named[v] is truthy for both kinds, and for an inherited key it is not a
\* string, so hexToRgba's hex.replace(...) throws a TypeError.
NamedColors == {"black", "white", "transparent"}
InheritedKeys == {"constructor", "__proto__"}
NamedHex(v) ==
    IF v = "black" THEN "#000000" ELSE IF v = "white" THEN "#ffffff" ELSE "#00000000"

\* The branches of parseColorValue after the two match calls.
ColorOfMatches(v, oklchMatch, hslMatch) ==
    IF oklchMatch.ok
    THEN oklchToRgba(OklchLightness(parseFloat(oklchMatch.g[1])), parseFloat(oklchMatch.g[2]),
                     parseFloat(oklchMatch.g[3]), AlphaOf(oklchMatch.g[4]))
    ELSE IF hslMatch.ok
    THEN hslToRgba(parseFloat(hslMatch.g[1]), parseFloat(hslMatch.g[2]),
                   parseFloat(hslMatch.g[3]), AlphaOf(hslMatch.g[4]))
    ELSE IF StartsWith(v, "rgb") THEN rgbStringToRgba(v)
    ELSE IF StartsWith(v, "#") THEN hexToRgba(v)
    ELSE IF v \in NamedColors THEN hexToRgba(NamedHex(v))
    ELSE IF v \in InheritedKeys THEN Throw
    ELSE Null
ColorOfLower(v) == ColorOfMatches(v, Match(OklchPattern, v), Match(HslPattern, v))
parseColorValue(value) == ColorOfLower(ToLowerCase(Trim(value)))

(***************************************************************************)
(* colorUtils.ts: the dimension converter                                  *)
(***************************************************************************)
remToPx(rem) == MulInt(rem, 16)

\* /^(-?[\d.]+)(rem|px|em)?$/
DimensionPattern ==
    <<Bol, Open(1), Maybe({"-"}), Plus(DigitDot), Close(1),
      Opt(<<Open(2), Alt(<< <<Lit("rem")>>, <<Lit("px")>>, <<Lit("em")>> >>), Close(2)>>),
      Eol>>

\* parseFloat of the number group (a group of dots alone parses to NaN),
\* times 16 for rem and em.
DimensionOf(match) ==
    IF ~match.ok THEN Null
    ELSE IF match.g[2] \in {"rem", "em"} THEN remToPx(parseFloat(match.g[1]))
    ELSE parseFloat(match.g[1])
parseDimension(value) == DimensionOf(Match(DimensionPattern, Trim(value)))

(***************************************************************************)
(* parser: extraction of the custom-property declarations                  *)
(***************************************************************************)
CSSVariable(n, raw) == [name |-> n, rawValue |-> raw]

\* /(--[\w-]+)\s*:\s*([^;]+)/g
DeclarationPattern ==
    <<Open(1), Lit("--"), Plus(WordChars \cup {"-"}), Close(1),
      Star(Whitespace), Lit(":"), Star(Whitespace),
      Open(2), PlusNot({";"}), Close(2)>>

\* The exec loop of the /g pattern: the leftmost match at or after
\* lastIndex, pushed trimmed and collapsed, then on from where it ended.
RECURSIVE ExtractFrom(_, _)
PushMatch(css, match) ==
    IF ~match.ok THEN <<>>
    ELSE <<CSSVariable(Trim(match.g[1]), CollapseWs(Trim(match.g[2]), 1))>>
             \o ExtractFrom(css, match.end)
ExtractFrom(css, lastIndex) == PushMatch(css, SearchFrom(DeclarationPattern, css, lastIndex))

extractCSSVariables(css) == ExtractFrom(css, 1)

\* /:root\s*\{([\s\S]*?)\}/ and /\.dark\s*\{([\s\S]*?)\}/
BlockPattern(selector) ==
    <<Lit(selector), Star(Whitespace), Lit("{"), Open(1), LazyStarNot({}), Close(1), Lit("}")>>

\* A Record<string, string> is a function from its keys; map[k] = v either
\* adds the key or overwrites its value.
EmptyMap == [k \in {} |-> ""]
\* An assignment that keeps the value a key already has, to set against
\* MapSet.
MapSetOnce(map, k, v) == [x \in (DOMAIN map) \cup {k} |-> IF x \in DOMAIN map THEN map[x] ELSE v]
MapSet(map, k, v) == [x \in (DOMAIN map) \cup {k} |-> IF x = k THEN v ELSE map[x]]

\* for (const v of vars) map[v.name] = v.rawValue
RECURSIVE AssignAll(_, _)
AssignAll(map, vs) ==
    IF vs = <<>> THEN map
    ELSE AssignAll(MapSet(map, Head(vs).name, Head(vs).rawValue), Tail(vs))

\* The map of one block: empty when the block pattern did not match.
BlockMap(match) ==
    IF match.ok THEN AssignAll(EmptyMap, extractCSSVariables(match.g[1])) ELSE EmptyMap

parseRootAndDark(css) ==
    [light |-> BlockMap(Match(BlockPattern(":root"), css)),
     dark |-> BlockMap(Match(BlockPattern(".dark"), css))]

(***************************************************************************)
(* parser: shadow values                                                   *)
(***************************************************************************)
\* A counter that never comes down, to set against DepthAfter.
DepthAfterOpen(char, depth) == IF char = "(" THEN depth + 1 ELSE depth

\* splitShadowParts: the loop over the characters, with the depth counter.
DepthAfter(char, depth) ==
    IF char = "(" THEN depth + 1 ELSE IF char = ")" THEN depth - 1 ELSE depth

RECURSIVE SplitLoop(_, _, _, _, _)
SplitLoop(value, i, depth, current, parts) ==
    IF i > Len(value)
    THEN IF Trim(current) # "" THEN Append(parts, current) ELSE parts
    ELSE IF Ch(value, i) = "," /\ DepthAfter(Ch(value, i), depth) = 0
    THEN SplitLoop(value, i + 1, depth, "", Append(parts, current))
    ELSE SplitLoop(value, i + 1, DepthAfter(Ch(value, i), depth),
                   current \o Ch(value, i), parts)

splitShadowParts(value) == SplitLoop(value, 1, 0, "", <<>>)

\* /((?:rgb|oklch|hsl)a?\([^)]+\))/
ColorFunctionPattern ==
    <<Open(1), Alt(<< <<Lit("rgb")>>, <<Lit("oklch")>>, <<Lit("hsl")>> >>), Maybe({"a"}),
      Lit("("), PlusNot({")"}), Lit(")"), Close(1)>>

\* /^inset\s+/
InsetPattern == <<Bol, Lit("inset"), Plus(Whitespace)>>

\* s.replace(pattern, r) for a pattern without the g flag.
ReplaceMatch(s, match, r) ==
    IF ~match.ok THEN s
    ELSE SubSeq(s, 1, match.at - 1) \o r \o SubSeq(s, match.end, Len(s))

\* parseDimension(n) || 0 : null, NaN and 0 all give 0.
OrZero(d) == IF IsNum(d) THEN d ELSE Num(0)

\* nums[k] || 0
NumAt(nums, k) == IF k <= Len(nums) THEN nums[k] ELSE Num(0)

DefaultShadowColor == [r |-> Num(0), g |-> Num(0), b |-> Num(0), a |-> Num(Scale \div 10)]

\* One layer of parseShadowValue, from a part that is not blank.
LayerOf(isInset, nums, color) ==
    [x |-> NumAt(nums, 1), y |-> NumAt(nums, 2), blur |-> NumAt(nums, 3),
     spread |-> NumAt(nums, 4),
     color |-> IF color = Null THEN DefaultShadowColor ELSE color,
     type |-> IF isInset THEN "INNER_SHADOW" ELSE "DROP_SHADOW"]
DimensionsOf(fields) == [k \in 1..Len(fields) |-> OrZero(parseDimension(fields[k]))]
LayerOfColor(isInset, shadow, colorStr) ==
    LayerOf(isInset, DimensionsOf(SplitWs(Trim(ReplaceFirst(shadow, colorStr, "")))),
            parseColorValue(colorStr))
ColorStringOf(colorMatch) == IF colorMatch.ok THEN colorMatch.g[1] ELSE "rgb(0 0 0 / 0.1)"
LayerOfShadow(isInset, shadow) ==
    LayerOfColor(isInset, shadow, ColorStringOf(Match(ColorFunctionPattern, shadow)))
LayerOfTrimmed(trimmed) ==
    LayerOfShadow(StartsWith(trimmed, "inset"),
                  ReplaceMatch(trimmed, Match(InsetPattern, trimmed), ""))
ShadowLayer(part) == LayerOfTrimmed(Trim(part))

RECURSIVE LayersOf(_)
LayersOf(parts) ==
    IF parts = <<>> THEN <<>>
    ELSE (IF Trim(Head(parts)) = "" THEN <<>> ELSE <<ShadowLayer(Head(parts))>>)
             \o LayersOf(Tail(parts))

parseShadowValue(value) == LayersOf(splitShadowParts(value))

(***************************************************************************)
(* parser: helpers                                                         *)
(***************************************************************************)
\* /calc\(\s*([\d.]+)\s*\/\s*([\d.]+)\s*\)/
CalcPattern ==
    <<Lit("calc("), Star(Whitespace), Open(1), Plus(DigitDot), Close(1),
      Star(Whitespace), Lit("/"), Star(Whitespace), Open(2), Plus(DigitDot), Close(2),
      Star(Whitespace), Lit(")")>>

\* isNaN(num) ? undefined : num
NumberOrUndefined(num) == IF isNaN(num) THEN Undefined ELSE num

\* numerator / denominator unless the denominator is 0 (a NaN denominator
\* is not 0 and gives NaN); otherwise parseFloat of the whole value.
CalcOf(value, calcMatch) ==
    IF calcMatch.ok /\ parseFloat(calcMatch.g[2]) # Num(0)
    THEN Div(parseFloat(calcMatch.g[1]), parseFloat(calcMatch.g[2]))
    ELSE NumberOrUndefined(parseFloat(value))
evaluateCalc(value) == CalcOf(value, Match(CalcPattern, value))

\* The steps of the spacing scale, doubled so that they are integers
\* (0.5, 1, 1.5, ... 96).
SpacingStepsTimes2 ==
    <<1, 2, 3, 4, 5, 6, 7, 8, 10, 12, 14, 16, 18, 20,
      22, 24, 28, 32, 40, 48, 56, 64, 72, 80, 88, 96, 104, 112,
      120, 128, 144, 160, 192>>

\* String(step).replace(/\./g, '_')
RECURSIVE ReplaceDots(_)
ReplaceDots(s) ==
    IF s = "" THEN ""
    ELSE (IF Ch(s, 1) = "." THEN "_" ELSE Ch(s, 1)) \o ReplaceDots(SubSeq(s, 2, Len(s)))

ParsedFloat(path, value, raw) == [path |-> path, value |-> value, rawValue |-> raw]

ScaleEntry(step, product) ==
    ParsedFloat(<<ReplaceDots(NumberToString(step))>>, product, NumberToString(product) \o "px")
generateSpacingScale(basePx) ==
    [k \in 1..Len(SpacingStepsTimes2) |->
        ScaleEntry(Num((SpacingStepsTimes2[k] * Scale) \div 2),
                   DivInt(MulInt(basePx, SpacingStepsTimes2[k]), 2))]

(***************************************************************************)
(* parser: categorizeTokens                                                *)
(***************************************************************************)
Families ==
    {"colors", "spacing", "radius", "shadows", "blur", "backdropBlur", "typography",
     "opacity", "fonts", "breakpoints", "containers", "fontWeights", "tracking",
     "leading", "borderWidth", "maxWidth", "skew"}

EmptyTokenSet == [f \in Families |-> <<>>]

Push(res, family, token) == [res EXCEPT ![family] = Append(@, token)]

\* v.name.replace(/^--/, '')
StrippedName(v) == ReplacePrefix(v.name, "--", "")

\* The name tests of the rules, in the order of the loop body.
ColorTest(name) == StartsWith(name, "color-")
SpacingTest(name) == name = "spacing"
BreakpointTest(name) == StartsWith(name, "breakpoint-")
ContainerTest(name) == StartsWith(name, "container-")
MaxWidthTest(name) == StartsWith(name, "max-w-") \/ StartsWith(name, "max-width-")
FontWeightTest(name) == StartsWith(name, "font-weight-")
TrackingTest(name) == StartsWith(name, "tracking-")
LeadingTest(name) == StartsWith(name, "leading-")
RadiusTest(name) == StartsWith(name, "radius")
\* The shadow test without its exclusion of `shadow-inner`, to set against
\* ShadowTest.
ShadowPrefixTest(name) == StartsWith(name, "shadow-")
ShadowTest(name) == StartsWith(name, "shadow-") /\ ~StartsWith(name, "shadow-inner")
InsetShadowTest(name) == StartsWith(name, "inset-shadow-")
DropShadowTest(name) == StartsWith(name, "drop-shadow-")
TextShadowTest(name) == StartsWith(name, "text-shadow-")
BlurTest(name) == StartsWith(name, "blur")
BackdropBlurTest(name) == StartsWith(name, "backdrop-blur")
TypographyTest(name) == StartsWith(name, "text-") /\ ~Includes(name, "shadow")
ModifierTest(name) ==
    EndsWith(name, "--line-height") \/ EndsWith(name, "--letter-spacing")
        \/ EndsWith(name, "--font-weight")
FontTest(name) == StartsWith(name, "font-") /\ ~StartsWith(name, "font-weight-")
OpacityTest(name) == StartsWith(name, "opacity-")
BorderWidthTest(name) == StartsWith(name, "border-width-")
SkewTest(name) == StartsWith(name, "skew-")

\* name.replace(/^max-w(idth)?-/, '')
StripMaxWidth(name) ==
    IF StartsWith(name, "max-width-") THEN SubSeq(name, 11, Len(name))
    ELSE IF StartsWith(name, "max-w-") THEN SubSeq(name, 7, Len(name))
    ELSE name

\* A float family whose value goes through parseDimension: pushed unless
\* the result is null (NaN is not null).
PushUnlessNull(res, family, path, dim, raw) ==
    IF dim # Null THEN Push(res, family, ParsedFloat(path, dim, raw)) ELSE res
PushDimension(res, family, path, raw) ==
    PushUnlessNull(res, family, path, parseDimension(raw), raw)

\* A float family whose value goes through parseFloat: pushed unless NaN.
PushUnlessNaN(res, family, path, val, raw) ==
    IF ~isNaN(val) THEN Push(res, family, ParsedFloat(path, val, raw)) ELSE res
PushNumber(res, family, path, raw) ==
    PushUnlessNaN(res, family, path, parseFloat(raw), raw)

\* The path of the radius, blur and backdrop-blur rules: the name without
\* its first `<family>-`, split on '-', with "default" as the first part
\* for the bare name.
DefaultFirst(name, family, parts) ==
    IF name = family THEN [parts EXCEPT ![1] = "default"] ELSE parts
DefaultPath(name, family) ==
    DefaultFirst(name, family, Split(ReplaceFirst(name, family \o "-", ""), "-"))

\* A colour: pushed unless parseColorValue returned null.
PushColor(res, path, color, raw) ==
    IF color = Throw THEN Throw
    ELSE IF color # Null
    THEN Push(res, "colors", [path |-> path, figmaColor |-> color, rawValue |-> raw])
    ELSE res

\* A shadow: pushed unless parseShadowValue returned no layer.
PushLayers(res, shadowName, layers, raw) ==
    IF Len(layers) > 0
    THEN Push(res, "shadows", [name |-> shadowName, shadows |-> layers, rawValue |-> raw])
    ELSE res
PushShadow(res, shadowName, raw) == PushLayers(res, shadowName, parseShadowValue(raw), raw)

\* vars.find(lv => lv.name === n): the first variable of that name.
RECURSIVE FindFrom(_, _, _)
FindFrom(all, n, k) ==
    IF k > Len(all) THEN Undefined
    ELSE IF all[k].name = n THEN all[k]
    ELSE FindFrom(all, n, k + 1)
Find(all, n) == FindFrom(all, n, 1)

\* `var lineHeight`, `var letterSpacing`, `var fontWeight`: declared without
\* an initializer inside the loop body, so function-scoped; each keeps the
\* value of the previous pass until an assignment is reached.
NoHoisted == [lineHeight |-> Undefined, letterSpacing |-> Undefined, fontWeight |-> Undefined]

\* The sibling lookups of a text size: each searches the whole list and
\* assigns only under its guard.
LineHeightFrom(lhVar, prev) ==
    IF lhVar # Undefined THEN evaluateCalc(lhVar.rawValue) ELSE prev
LetterSpacingFrom(lsVar, prev) ==
    IF lsVar # Undefined /\ parseDimension(lsVar.rawValue) # Null
    THEN parseDimension(lsVar.rawValue)
    ELSE prev
FontWeightFrom(fwVar, prev) ==
    IF fwVar # Undefined /\ ~isNaN(parseFloat(fwVar.rawValue))
    THEN parseFloat(fwVar.rawValue)
    ELSE prev
Hoisted(all, name, loc) ==
    [lineHeight |-> LineHeightFrom(Find(all, "--" \o name \o "--line-height"), loc.lineHeight),
     letterSpacing |->
         LetterSpacingFrom(Find(all, "--" \o name \o "--letter-spacing"), loc.letterSpacing),
     fontWeight |-> FontWeightFrom(Find(all, "--" \o name \o "--font-weight"), loc.fontWeight)]

TypographyToken(name, dim, raw, loc) ==
    [name |-> ReplaceFirst(name, "text-", ""),
     fontSize |-> dim,
     lineHeight |-> loc.lineHeight,
     letterSpacing |-> loc.letterSpacing,
     fontWeight |-> loc.fontWeight,
     rawValue |-> raw]
PushSized(res, name, dim, raw, loc) ==
    IF dim # Null THEN Push(res, "typography", TypographyToken(name, dim, raw, loc)) ELSE res
PushTypography(res, loc, all, name, raw) ==
    PushSized(res, name, parseDimension(raw), raw, Hoisted(all, name, loc))

\* v.rawValue.split(',')[0].trim().replace(/['"]/g, '')
RECURSIVE StripQuotes(_)
StripQuotes(s) ==
    IF s = "" THEN ""
    ELSE (IF Ch(s, 1) \in {"'", "\""} THEN "" ELSE Ch(s, 1)) \o StripQuotes(SubSeq(s, 2, Len(s)))
FontFamily(raw) == StripQuotes(Trim(Split(raw, ",")[1]))

\* The rules after `opacity-`, which has no `continue`: the body goes on to
\* the border-width and skew tests with what the opacity rule left.
AfterOpacity(res, name, raw) ==
    IF BorderWidthTest(name)
    THEN PushDimension(res, "borderWidth", Split(ReplaceFirst(name, "border-width-", ""), "-"), raw)
    ELSE IF SkewTest(name)
    THEN PushNumber(res, "skew", Split(ReplaceFirst(name, "skew-", ""), "-"), raw)
    ELSE res

\* The body of `for (const v of vars)` for one name and raw value: the
\* token set after it, or Throw when parseColorValue throws.
Categorize(res, loc, name, raw, all) ==
    IF ColorTest(name)
    THEN PushColor(res, Split(ReplaceFirst(name, "color-", ""), "-"), parseColorValue(raw), raw)
    ELSE IF SpacingTest(name) THEN PushDimension(res, "spacing", <<"base">>, raw)
    ELSE IF BreakpointTest(name)
    THEN PushDimension(res, "breakpoints", <<ReplaceFirst(name, "breakpoint-", "")>>, raw)
    ELSE IF ContainerTest(name)
    THEN PushDimension(res, "containers", <<ReplaceFirst(name, "container-", "")>>, raw)
    ELSE IF MaxWidthTest(name)
    THEN PushDimension(res, "maxWidth", <<StripMaxWidth(name)>>, raw)
    ELSE IF FontWeightTest(name)
    THEN PushNumber(res, "fontWeights", <<ReplaceFirst(name, "font-weight-", "")>>, raw)
    ELSE IF TrackingTest(name)
    THEN PushDimension(res, "tracking", <<ReplaceFirst(name, "tracking-", "")>>, raw)
    ELSE IF LeadingTest(name)
    THEN PushNumber(res, "leading", <<ReplaceFirst(name, "leading-", "")>>, raw)
    ELSE IF RadiusTest(name)
    THEN PushDimension(res, "radius", DefaultPath(name, "radius"), raw)
    ELSE IF ShadowTest(name)
    THEN PushShadow(res, "drop-shadow/" \o ReplaceFirst(name, "shadow-", ""), raw)
    ELSE IF InsetShadowTest(name)
    THEN PushShadow(res, "inset-shadow/" \o ReplaceFirst(name, "inset-shadow-", ""), raw)
    ELSE IF DropShadowTest(name)
    THEN PushShadow(res, "drop-shadow/" \o ReplaceFirst(name, "drop-shadow-", ""), raw)
    ELSE IF TextShadowTest(name)
    THEN PushShadow(res, "text-shadow/" \o ReplaceFirst(name, "text-shadow-", ""), raw)
    ELSE IF BlurTest(name)
    THEN PushDimension(res, "blur", DefaultPath(name, "blur"), raw)
    ELSE IF BackdropBlurTest(name)
    THEN PushDimension(res, "backdropBlur", DefaultPath(name, "backdrop-blur"), raw)
    ELSE IF TypographyTest(name)
    THEN IF ModifierTest(name) THEN res ELSE PushTypography(res, loc, all, name, raw)
    ELSE IF FontTest(name)
    THEN Push(res, "fonts",
              [name |-> ReplaceFirst(name, "font-", ""), family |-> FontFamily(raw),
               rawValue |-> raw])
    ELSE IF OpacityTest(name)
    THEN AfterOpacity(PushNumber(res, "opacity",
                                 Split(ReplaceFirst(name, "opacity-", ""), "-"), raw),
                      name, raw)
    ELSE AfterOpacity(res, name, raw)

CategorizeVar(res, loc, v, all) == Categorize(res, loc, StrippedName(v), v.rawValue, all)

\* The hoisted locals after the body: only the typography rule, reached when
\* no rule before it claimed the name, assigns them, and only for a text
\* size whose dimension parses.
EarlierRule(name) ==
    \/ ColorTest(name) \/ SpacingTest(name) \/ BreakpointTest(name) \/ ContainerTest(name)
    \/ MaxWidthTest(name) \/ FontWeightTest(name) \/ TrackingTest(name) \/ LeadingTest(name)
    \/ RadiusTest(name) \/ ShadowTest(name) \/ InsetShadowTest(name) \/ DropShadowTest(name)
    \/ TextShadowTest(name) \/ BlurTest(name) \/ BackdropBlurTest(name)
HoistedAfter(loc, name, raw, all) ==
    IF ~EarlierRule(name) /\ TypographyTest(name) /\ ~ModifierTest(name)
           /\ parseDimension(raw) # Null
    THEN Hoisted(all, name, loc)
    ELSE loc
HoistedAfterVar(loc, v, all) == HoistedAfter(loc, StrippedName(v), v.rawValue, all)

\* A step that expands the first entry of any non-empty spacing family, to
\* set against SynthesizeSpacing.
SynthesizeFromFirst(res) ==
    IF Len(res.spacing) >= 1
    THEN [res EXCEPT !.spacing = generateSpacingScale(res.spacing[1].value)]
    ELSE res

\* The step after the loop: a spacing family of exactly one entry is
\* replaced by the scale generated from it.
SynthesizeSpacing(res) ==
    IF Len(res.spacing) = 1
    THEN [res EXCEPT !.spacing = generateSpacingScale(res.spacing[1].value)]
    ELSE res

\* categorizeTokens as a function: the loop from variable k on, then the
\* spacing step; Throw when a pass throws.
RECURSIVE CategorizeFrom(_, _, _, _)
CategorizeNext(next, loc, all, k) ==
    IF next = Throw THEN Throw ELSE CategorizeFrom(next, loc, all, k + 1)
CategorizeFrom(res, loc, all, k) ==
    IF k > Len(all) THEN SynthesizeSpacing(res)
    ELSE CategorizeNext(CategorizeVar(res, loc, all[k], all),
                        HoistedAfterVar(loc, all[k], all), all, k)

categorizeTokens(all) == CategorizeFrom(EmptyTokenSet, NoHoisted, all, 1)

(***************************************************************************)
(* The inputs                                                              *)
(***************************************************************************)
RECURSIVE StringsUpTo(_, _)
StringsUpTo(A, n) ==
    IF n = 0 THEN {""}
    ELSE StringsUpTo(A, n - 1) \cup {s \o c : s \in StringsUpTo(A, n - 1), c \in A}

\* Colour strings: '#' and up to MaxHexLen characters, and the functional
\* notations with their fields drawn from small sets.
MaxHexLen == 3
HexInputs ==
    {"#" \o h : h \in StringsUpTo({"0", "8", "f", "z"}, MaxHexLen)}
        \cup {"#12345", "#ffffff", "#00000080", "#FFF", "#ff00", " #fff "}
OklchInputs ==
    {"oklch(" \o L \o " " \o C \o " " \o H \o A \o ")" :
        L \in {"0.5", "62.8%", "1"}, C \in {"0", "0.4"}, H \in {"0", "120"},
        A \in {"", " / 0.5", " / 5", " / 150%"}}
HslInputs ==
    {"hsl(" \o h \o sep \o "100%" \o sep \o "50%" \o A \o ")" :
        h \in {"0", "210"}, sep \in {", ", " "}, A \in {"", ", 0.5", " / 200%"}}
        \cup {"hsla(0, 0%, 0%, 2)", "hsl(0,,0%,0%)"}
RgbInputs ==
    {"rgb(255, 0, 0)", "rgba(255, 0, 0, 50%)", "rgb(0 0 0 / 0.1)", "rgb(12345)",
     "rgb(999 0 0 / 7)", "rgb(red)", "rgb"}
OtherColorInputs ==
    {"black", "white", "transparent", " WHITE ", "not-a-color", "", "red",
     "constructor", "__proto__", "xoklch(0 0 0)x"}
ColorInputs == HexInputs \cup OklchInputs \cup HslInputs \cup RgbInputs \cup OtherColorInputs

\* The sequences over S of length at most n.
SeqsUpTo(S, n) == UNION {[1..k -> S] : k \in 0..n}

\* Lists of typography, spacing and colour declarations, up to MaxVars long.
MaxVars == 3
TypoPool ==
    {CSSVariable("--text-sm", "14px"),
     CSSVariable("--text-sm", "big"),
     CSSVariable("--text-sm--line-height", "calc(1.25 / 0.875)"),
     CSSVariable("--text-sm--line-height", "normal"),
     CSSVariable("--text-sm--letter-spacing", "0.5px"),
     CSSVariable("--text-sm--font-weight", "600"),
     CSSVariable("--text-lg", "1.5rem"),
     CSSVariable("--text-shadow-sm", "0 1px 2px #000"),
     CSSVariable("--spacing", "4px"),
     CSSVariable("--spacing", "wide"),
     CSSVariable("--color-x", "nope")}

\* Lists over every kind of name, up to MaxRouteVars long.
MaxRouteVars == 1
RouteNames ==
    {"--color-red-500", "--color-", "--spacing", "--spacing-4", "--breakpoint-sm",
     "--container-md", "--max-w-lg", "--max-width-xl", "--font-weight-bold",
     "--tracking-wide", "--leading-tight", "--radius", "--radius-sm", "--radiusfoo",
     "--shadow-sm", "--shadow-inner", "--inset-shadow-xs", "--drop-shadow-md",
     "--text-shadow-lg", "--blur", "--blur-sm", "--blurry", "--backdrop-blur",
     "--backdrop-blur-md", "--text-sm", "--text-", "--text-sm--font-weight",
     "--text-foo-shadow", "--font-sans", "--font-", "--opacity-50", "--border-width-2",
     "--skew-3", "--animate-spin"}
RouteValues == {"4px", "#fff", "bold"}
RoutePool ==
    {CSSVariable(n, v) : n \in RouteNames, v \in RouteValues}
        \cup {CSSVariable("--color-x", "constructor")}

\* Lists that repeat one `--spacing` declaration, up to MaxRepeat times.
MaxRepeat == 33
RepeatedSpacing == {[k \in 1..n |-> CSSVariable("--spacing", "4px")] : n \in 0..MaxRepeat}

CatInputs ==
    SeqsUpTo(TypoPool, MaxVars) \cup SeqsUpTo(RoutePool, MaxRouteVars) \cup RepeatedSpacing

\* Flat stylesheets: up to MaxDecls declarations, each a name, the text
\* around its colon and a value as written with the value it stands for,
\* every one closed by ';' (the last one left open when `semi` is false),
\* between a prefix and a suffix.
MaxDecls == 2
DeclNames == {"--a", "--font-sans_2"}
ColonLayouts == {":", " :\n  "}
ValuePairs ==
    {<<"var(--b)", "var(--b)">>,
     <<"0 1px  2px #000", "0 1px 2px #000">>,
     <<"Inter,\n    sans-serif", "Inter, sans-serif">>,
     <<"a\tb  ", "a b">>}
DeclPool ==
    {[name |-> n, colon |-> c, value |-> v] :
        n \in DeclNames, c \in ColonLayouts, v \in ValuePairs}
Wrappers ==
    {[pre |-> "", post |-> "", semi |-> TRUE],
     [pre |-> ":root {\n  ", post |-> "\n}", semi |-> TRUE],
     [pre |-> "", post |-> "", semi |-> FALSE]}
DeclSources == {[decls |-> ds, wrap |-> w] : ds \in SeqsUpTo(DeclPool, MaxDecls), w \in Wrappers}

RECURSIVE RenderDecls(_, _, _)
RenderDecls(ds, k, semi) ==
    IF k > Len(ds) THEN ""
    ELSE ds[k].name \o ds[k].colon \o ds[k].value[1]
             \o (IF k < Len(ds) THEN ";\n  " ELSE IF semi THEN ";" ELSE "")
             \o RenderDecls(ds, k + 1, semi)
RenderFlat(s) == s.wrap.pre \o RenderDecls(s.decls, 1, s.wrap.semi) \o s.wrap.post

\* Stylesheets of blocks: up to MaxBlocks blocks, each a selector and a
\* body of `name: value;` declarations.
MaxBlocks == 3
Selectors == {":root", ".dark", "body"}
BlockBodies ==
    {<<>>,
     << <<"--a", "1">>, <<"--a", "2">> >>,
     << <<"--a", "3">>, <<"--b", "4">> >>}
BlockPool == {[selector |-> s, body |-> b] : s \in Selectors, b \in BlockBodies}
BlockSources == SeqsUpTo(BlockPool, MaxBlocks)

RECURSIVE RenderBody(_, _)
RenderBody(body, k) ==
    IF k > Len(body) THEN ""
    ELSE " " \o body[k][1] \o ": " \o body[k][2] \o ";" \o RenderBody(body, k + 1)
RECURSIVE RenderBlocks(_, _)
RenderBlocks(blocks, k) ==
    IF k > Len(blocks) THEN ""
    ELSE blocks[k].selector \o " {" \o RenderBody(blocks[k].body, 1) \o " }\n"
             \o RenderBlocks(blocks, k + 1)


(***************************************************************************)
(* registry.ts                                                             *)
(***************************************************************************)
\* An adapter, by the fields the registry reads.
Adapter(id, dependencies) == [id |-> id, dependencies |-> dependencies]
\* new Map([[tailwindAdapter.id, tailwindAdapter], ...])
BuiltinAdapters ==
    [id \in {"tailwindcss", "shadcn", "base-ui", "coss"} |->
        IF id = "tailwindcss" THEN Adapter(id, <<>>) ELSE Adapter(id, <<"tailwindcss">>)]

\* result.push(a), and a push at the front to set against it.
PushFirst(res, a) == <<a>> \o res
PushAdapter(res, a) == Append(res, a)

\* The closure `resolve` of resolveAdapters over its captured visited and
\* result; calls counts the invocations of resolve.
RECURSIVE resolve(_, _, _)
RECURSIVE ResolveEach(_, _, _, _)
ResolveEach(st, registry, deps, k) ==
    IF k > Len(deps) THEN st
    ELSE ResolveEach(resolve(st, registry, deps[k]), registry, deps, k + 1)
Pushed(st, a) == [st EXCEPT !.result = PushAdapter(@, a)]
resolve(st, registry, adapterId) ==
    IF adapterId \in st.visited THEN [st EXCEPT !.calls = @ + 1]
    ELSE IF adapterId \notin DOMAIN registry
    THEN [st EXCEPT !.calls = @ + 1, !.visited = @ \cup {adapterId}]
    ELSE Pushed(ResolveEach([st EXCEPT !.calls = @ + 1, !.visited = @ \cup {adapterId}],
                            registry, registry[adapterId].dependencies, 1),
                registry[adapterId])
resolveAdapters(registry, ids) ==
    ResolveEach([result |-> <<>>, visited |-> {}, calls |-> 0], registry, ids, 1)

\* parts.join(sep)
RECURSIVE Join(_, _)
Join(parts, sep) ==
    IF parts = <<>> THEN ""
    ELSE IF Len(parts) = 1 THEN parts[1]
    ELSE parts[1] \o sep \o Join(Tail(parts), sep)

(***************************************************************************)
(* The Figma document and variableManager (src/unnamed/part_001)           *)
(***************************************************************************)
\* A document: collections [id, name, modes], variables [id, collection,
\* name, type, values, scopes] and styles [kind, name, value], each in
\* creation order.  values maps the mode ids that were set to their value.
EmptyDocument == [collections |-> <<>>, variables |-> <<>>, styles |-> <<>>]
ModeId(collectionId, k) == [c |-> collectionId, k |-> k]
Alias(id) == [type |-> "VARIABLE_ALIAS", id |-> id]
NoValues == [m \in {} |-> Null]

\* array.find(test): the index of the first element that passes, 0 if none
FirstIndex(S) == IF S = {} THEN 0 ELSE CHOOSE i \in S : \A j \in S : i <= j
CollectionNamed(d, name) ==
    FirstIndex({i \in 1..Len(d.collections) : d.collections[i].name = name})
\* figma.variables.createVariableCollection(name): one default mode
CreateCollection(d, name) ==
    [d EXCEPT !.collections =
        Append(@, [id |-> Len(@) + 1, name |-> name,
                   modes |-> <<[modeId |-> ModeId(Len(@) + 1, 1), name |-> "Mode 1"]>>])]
\* findOrCreateCollection: the document afterwards, and the collection id
findOrCreateCollection(d, name) ==
    IF CollectionNamed(d, name) > 0
    THEN [doc |-> d, id |-> CollectionNamed(d, name)]
    ELSE [doc |-> CreateCollection(d, name), id |-> Len(d.collections) + 1]

\* ensureModes(info, ['Light', 'Dark']): the first mode is renamed to
\* Light, a mode Dark is added unless one exists.
ModeNamed(modes, name) == FirstIndex({i \in 1..Len(modes) : modes[i].name = name})
RenameFirst(modes, name) == [modes EXCEPT ![1].name = name]
AddMode(modes, c, name) ==
    IF ModeNamed(modes, name) > 0 THEN modes
    ELSE Append(modes, [modeId |-> ModeId(c, Len(modes) + 1), name |-> name])
ensureModes(d, c) ==
    [d EXCEPT !.collections[c].modes = AddMode(RenameFirst(@, "Light"), c, "Dark")]

\* findOrCreateVariable: the first variable of that type with that name
\* in that collection, or a new one.
VariableNamed(d, c, name, type) ==
    FirstIndex({i \in 1..Len(d.variables) :
        /\ d.variables[i].type = type
        /\ d.variables[i].name = name
        /\ d.variables[i].collection = c})
CreateVariable(d, c, name, type) ==
    [d EXCEPT !.variables =
        Append(@, [id |-> Len(@) + 1, collection |-> c, name |-> name, type |-> type,
                   values |-> NoValues, scopes |-> {}])]
\* A find-or-create that always creates, to set against findOrCreateVariable.
createVariableAlways(d, c, name, type) ==
    [doc |-> CreateVariable(d, c, name, type), id |-> Len(d.variables) + 1]
findOrCreateVariable(d, c, name, type) ==
    IF VariableNamed(d, c, name, type) > 0
    THEN [doc |-> d, id |-> VariableNamed(d, c, name, type)]
    ELSE [doc |-> CreateVariable(d, c, name, type), id |-> Len(d.variables) + 1]

\* variable.setValueForMode(modeId, value) and applyScopes on the variable
\* a find-or-create returned
SetValue(found, modeId, value) ==
    [found EXCEPT !.doc.variables[found.id].values = MapSet(@, modeId, value)]
applyScopes(found, scopes) == [found.doc EXCEPT !.variables[found.id].scopes = scopes]
\* setColorVariable / setFloatVariable / setStringVariable, then applyScopes
SetVariable(d, c, modeId, name, type, value, scopes) ==
    applyScopes(SetValue(findOrCreateVariable(d, c, name, type), modeId, value), scopes)

\* setFloatVariable alone, the scopes left as they are
SetValueOnly(d, c, modeId, name, type, value) ==
    SetValue(findOrCreateVariable(d, c, name, type), modeId, value).doc

\* createShadowStyle / createBlurStyle / createGridStyle / createTextStyle:
\* the first style of that kind with that name, or a new one, then its
\* value is set.
StyleNamed(d, kind, name) ==
    FirstIndex({i \in 1..Len(d.styles) : d.styles[i].kind = kind /\ d.styles[i].name = name})
PutStyle(d, i, kind, name, value) ==
    IF i > 0 THEN [d EXCEPT !.styles[i].value = value]
    ELSE [d EXCEPT !.styles = Append(@, [kind |-> kind, name |-> name, value |-> value])]
CreateStyle(d, kind, name, value) == PutStyle(d, StyleNamed(d, kind, name), kind, name, value)

\* getVariablesInCollection(collectionId): the indices, in document order
RECURSIVE VariablesIn(_, _, _)
VariablesIn(d, c, k) ==
    IF k > Len(d.variables) THEN <<>>
    ELSE (IF d.variables[k].collection = c THEN <<k>> ELSE <<>>) \o VariablesIn(d, c, k + 1)

(***************************************************************************)
(* The plugin at rest: no import run, nothing posted, an empty document,   *)
(* an empty fetch cache, the UI store as created.                          *)
(***************************************************************************)
\* handleImport has not been called.
IdleRun == [phase |-> "idle"]
\* fetcher.ts line 5: `const cache = new Map()`, no call in flight
NoText == [u \in {} |-> ""]
\* calls are the fetch calls made so far; clears, sinceClear, okTexts and
\* failed are history: the clearCache calls so far, the fetch calls started
\* since the last one, the <<url, text>> of the fetches that completed
\* since the last one, and the urls whose last settled fetch failed with
\* no call for that url started since.
IdleNet ==
    [cache |-> NoText, calls |-> <<>>, clears |-> 0, sinceClear |-> 0, okTexts |-> {},
     failed |-> {}]
\* store.ts lines 57 and 60: view 'dashboard', selectedLibraryIds
\* ['tailwindcss']
InitialStore == [view |-> "dashboard", selectedLibraryIds |-> <<"tailwindcss">>]
InitPlugin ==
    /\ run = IdleRun
    /\ posted = <<>>
    /\ doc = EmptyDocument
    /\ net = IdleNet
    /\ store = InitialStore

(***************************************************************************)
(* figmaSync: importPrimitives                                             *)
(***************************************************************************)
\* The import in progress: the document, the collection and its first
\* mode, `total`, `current`, and the progress reports made so far.
Flags ==
    {"importColors", "importSpacing", "importRadius", "importShadows", "importBlur",
     "importTypography", "importBreakpoints", "importContainers", "importFontWeights",
     "importTracking", "importLeading", "importMaxWidth", "importBorderWidth",
     "importOpacity", "importSkew"}
\* `if (options.importX) count += tokens.x.length`
CountIf(options, flag, tokens, family) == IF options[flag] THEN Len(tokens[family]) ELSE 0
\* The count without the unconditional opacity term, to set against
\* countTokens.
countFlagged(tokens, options) ==
    CountIf(options, "importColors", tokens, "colors")
    + CountIf(options, "importSpacing", tokens, "spacing")
    + CountIf(options, "importRadius", tokens, "radius")
    + CountIf(options, "importShadows", tokens, "shadows")
    + CountIf(options, "importBlur", tokens, "blur")
    + CountIf(options, "importBlur", tokens, "backdropBlur")
    + CountIf(options, "importTypography", tokens, "typography")
    + CountIf(options, "importTypography", tokens, "fonts")
    + CountIf(options, "importBreakpoints", tokens, "breakpoints")
    + CountIf(options, "importContainers", tokens, "containers")
    + CountIf(options, "importFontWeights", tokens, "fontWeights")
    + CountIf(options, "importTracking", tokens, "tracking")
    + CountIf(options, "importTracking", tokens, "tracking")
    + CountIf(options, "importLeading", tokens, "leading")
    + CountIf(options, "importLeading", tokens, "leading")
    + CountIf(options, "importMaxWidth", tokens, "maxWidth")
    + CountIf(options, "importBorderWidth", tokens, "borderWidth")
    + CountIf(options, "importOpacity", tokens, "opacity")
    + CountIf(options, "importSkew", tokens, "skew")
countTokens(tokens, options) ==
    CountIf(options, "importColors", tokens, "colors")
    + CountIf(options, "importSpacing", tokens, "spacing")
    + CountIf(options, "importRadius", tokens, "radius")
    + CountIf(options, "importShadows", tokens, "shadows")
    + CountIf(options, "importBlur", tokens, "blur")
    + CountIf(options, "importBlur", tokens, "backdropBlur")
    + CountIf(options, "importTypography", tokens, "typography")
    + CountIf(options, "importTypography", tokens, "fonts")
    + Len(tokens.opacity)
    + CountIf(options, "importBreakpoints", tokens, "breakpoints")
    + CountIf(options, "importContainers", tokens, "containers")
    + CountIf(options, "importFontWeights", tokens, "fontWeights")
    + CountIf(options, "importTracking", tokens, "tracking")
    + CountIf(options, "importTracking", tokens, "tracking")
    + CountIf(options, "importLeading", tokens, "leading")
    + CountIf(options, "importLeading", tokens, "leading")
    + CountIf(options, "importMaxWidth", tokens, "maxWidth")
    + CountIf(options, "importBorderWidth", tokens, "borderWidth")
    + CountIf(options, "importOpacity", tokens, "opacity")
    + CountIf(options, "importSkew", tokens, "skew")

\* An import in progress is a record of the document, the collection and
\* its first mode, `total`, `current` and the reports made so far; the
\* function body is the list of its steps in program order, run one after
\* the other.
ReportStep(phase) == [op |-> "report", phase |-> phase]
\* `if (current % every === 0) onProgress(...)`
MultipleStep(phase, every) == [op |-> "reportAtMultiple", phase |-> phase, every |-> every]
\* `current++`, `current += n`
CountStep(n) == [op |-> "count", n |-> n]
\* v = setXVariable(info.collection, modeId, name, value); applyScopes(v, scopes)
VariableStep(name, type, value, scopes) ==
    [op |-> "variable", name |-> name, type |-> type, value |-> value, scoped |-> TRUE,
     scopes |-> scopes]
\* setFloatVariable alone
ValueStep(name, value) ==
    [op |-> "variable", name |-> name, type |-> "FLOAT", value |-> value, scoped |-> FALSE,
     scopes |-> {}]
\* createShadowStyle(name, shadow), createGridStyle(name, width)
StyleStep(kind, name, value) == [op |-> "style", kind |-> kind, name |-> name, value |-> value]
\* createBlurStyle(name, radius, isBackdrop, v), v the variable of that name
BlurStyleStep(name, radius, isBackdrop) ==
    [op |-> "blurStyle", name |-> name, radius |-> radius, isBackdrop |-> isBackdrop]
\* createTextStyle(name, typo, familyName, sizeVar, lhVar, lsVar,
\* defaultFontFamilyVar, weightVar), the variables given by their names
\* ("" for undefined)
TextStyleStep(name, typo, bind, loads) ==
    [op |-> "textStyle", name |-> name, typo |-> typo, bind |-> bind, loads |-> loads]

\* for (const t of tokens) { ...Body(t) }
RECURSIVE EachToken(_, _, _)
EachToken(tokens, Body(_), k) ==
    IF k > Len(tokens) THEN <<>> ELSE Body(tokens[k]) \o EachToken(tokens, Body, k + 1)
\* `if (on) { onProgress(...phase); <steps> }`
Phase(on, phase, steps) == IF on THEN <<ReportStep(phase)>> \o steps ELSE <<>>
\* A loop of `v = setFloatVariable(group + path.join('/')); applyScopes(v,
\* scopes); current++`
FloatSteps(tokens, group, scopes) ==
    EachToken(tokens,
              LAMBDA t : <<VariableStep(group \o Join(t.path, "/"), "FLOAT", t.value, scopes),
                           CountStep(1)>>,
              1)

mapFontFamily(fontFamily) ==
    IF fontFamily \in {"ui-sans-serif", "system-ui"} THEN "Inter"
    ELSE IF fontFamily = "ui-serif" THEN "Georgia"
    ELSE IF fontFamily = "ui-monospace" THEN "Roboto Mono"
    ELSE fontFamily
\* The fonts loop: no report, no `current++`
Fonts(tokens, options) ==
    IF options.importTypography
    THEN EachToken(tokens.fonts,
                   LAMBDA font : <<VariableStep("typography/family/" \o font.name, "STRING",
                                                mapFontFamily(font.family), {"FONT_FAMILY"})>>,
                   1)
    ELSE <<>>
FontWeights(tokens, options) ==
    Phase(options.importFontWeights, "Font Weights",
          FloatSteps(tokens.fontWeights, "typography/weight/", {"FONT_WEIGHT"}))
\* The colours: a report before the loop and after every 20th `current`.
ReportEvery == 20
Colors(tokens, options) ==
    Phase(options.importColors, "Colors",
          EachToken(tokens.colors,
                    LAMBDA color :
                        <<VariableStep("colors/" \o Join(color.path, "/"), "COLOR",
                                       color.figmaColor,
                                       {"ALL_FILLS", "STROKE_COLOR", "EFFECT_COLOR"}),
                          CountStep(1), MultipleStep("Colors", ReportEvery)>>,
                    1))
Spacing(tokens, options) ==
    Phase(options.importSpacing, "Spacing",
          FloatSteps(tokens.spacing, "spacing/", {"GAP", "WIDTH_HEIGHT", "PARAGRAPH_SPACING"}))
Radius(tokens, options) ==
    Phase(options.importRadius, "Radius",
          FloatSteps(tokens.radius, "radius/", {"CORNER_RADIUS"}))
\* The three blur loops: variable and style, with `current++` in the first
\* loop only.
BlurSteps(tokens, group, isBackdrop, counted) ==
    EachToken(tokens,
              LAMBDA t : <<VariableStep(group \o Join(t.path, "/"), "FLOAT", t.value,
                                        {"EFFECT_FLOAT"}),
                           BlurStyleStep(group \o Join(t.path, "/"), t.value, isBackdrop),
                           CountStep(IF counted THEN 1 ELSE 0)>>,
              1)
Blur(tokens, options) ==
    Phase(options.importBlur, "Blur",
          BlurSteps(tokens.blur, "blur/", FALSE, TRUE)
              \o BlurSteps(tokens.blur, "backdrop-blur/", TRUE, FALSE)
              \o BlurSteps(tokens.backdropBlur, "backdrop-blur/", TRUE, FALSE))
\* The opacity phase at lines 218-228, under `tokens.opacity.length > 0`
\* alone, and the one at lines 306-325 with its flag.
OpacityAlways(tokens) ==
    Phase(Len(tokens.opacity) > 0, "Opacity", FloatSteps(tokens.opacity, "opacity/", {"OPACITY"}))
Opacity(tokens, options) ==
    Phase(options.importOpacity, "Opacity", FloatSteps(tokens.opacity, "opacity/", {"OPACITY"}))
Breakpoints(tokens, options) ==
    Phase(options.importBreakpoints, "Breakpoints",
          FloatSteps(tokens.breakpoints, "breakpoint/", {"WIDTH_HEIGHT"}))
Containers(tokens, options) ==
    Phase(options.importContainers, "Containers",
          FloatSteps(tokens.containers, "container/", {"WIDTH_HEIGHT"}))
Tracking(tokens, options) ==
    Phase(options.importTracking, "Tracking",
          FloatSteps(tokens.tracking, "typography/tracking/", {"LETTER_SPACING"}))
\* The leading loop: the five named line heights are skipped by `continue`
\* before `current++`.
IgnoredLeading == {"tight", "snug", "normal", "relaxed", "loose"}
Leading(tokens, options) ==
    Phase(options.importLeading, "Leading",
          FloatSteps(SelectSeq(tokens.leading, LAMBDA ld : ld.path[1] \notin IgnoredLeading),
                     "typography/leading/", {"LINE_HEIGHT"}))
MaxWidth(tokens, options) ==
    Phase(options.importMaxWidth, "Max Width",
          EachToken(tokens.maxWidth,
                    LAMBDA mw : <<StyleStep("GRID", "max-width/" \o Join(mw.path, "/"), mw.value),
                                  CountStep(1)>>,
                    1))
BorderWidth(tokens, options) ==
    Phase(options.importBorderWidth, "Border Width",
          FloatSteps(tokens.borderWidth, "border-width/", {"STROKE_FLOAT"}))
Skew(tokens, options) ==
    Phase(options.importSkew, "Skew", FloatSteps(tokens.skew, "skew/", {}))
Shadows(tokens, options) ==
    Phase(options.importShadows, "Shadows",
          EachToken(tokens.shadows,
                    LAMBDA shadow : <<StyleStep("EFFECT", shadow.name, shadow.shadows),
                                      CountStep(1)>>,
                    1))

\* x * y for a y of at most four decimals, without leaving 32 bits
Times(x, y) ==
    IF IsNum(x) /\ IsNum(y)
    THEN Num(x.v * (y.v \div Scale) + SDiv(x.v * (y.v % Scale), Scale))
    ELSE NaN
\* `typo.lineHeight || (typo.fontSize * 1.5)`, then `if (lineHeightPx < 4)
\* lineHeightPx = typo.fontSize * lineHeightPx`
Falsy(x) == x = Undefined \/ x = Null \/ isNaN(x) \/ x = Num(0)
OrElse(x, y) == IF Falsy(x) THEN y ELSE x
PixelsIfSmall(fontSize, lineHeightPx) ==
    IF Lt(lineHeightPx, Num(4 * Scale)) THEN Times(fontSize, lineHeightPx) ELSE lineHeightPx
LineHeightPx(typo) ==
    PixelsIfSmall(typo.fontSize, OrElse(typo.lineHeight, Times(typo.fontSize, Num(15000))))

\* The letter-spacing variable of a text size: its own when the token has
\* a letter spacing, `typography/tracking/normal` with 0 otherwise.
LetterSpacingName(typo) ==
    IF typo.letterSpacing # Undefined THEN "typography/letter-spacing/" \o typo.name
    ELSE "typography/tracking/normal"
LetterSpacingValue(typo) ==
    IF typo.letterSpacing # Undefined THEN typo.letterSpacing ELSE Num(0)
\* Steps 1 to 3 of the typography loop body: the size, line-height and
\* letter-spacing variables.
SizeVariables(typo) ==
    <<VariableStep("typography/size/" \o typo.name, "FLOAT", typo.fontSize, {"FONT_SIZE"}),
      VariableStep("typography/leading/" \o typo.name, "FLOAT", LineHeightPx(typo),
                   {"LINE_HEIGHT"}),
      VariableStep(LetterSpacingName(typo), "FLOAT", LetterSpacingValue(typo),
                   {"LETTER_SPACING"})>>
\* defaultFontFamilyVar is the variable of the font named 'sans' that the
\* fonts loop set, undefined when there is none.
DefaultFontFamilyVar(tokens, options) ==
    IF options.importTypography /\ \E k \in 1..Len(tokens.fonts) : tokens.fonts[k].name = "sans"
    THEN "typography/family/sans"
    ELSE ""
\* The variables createTextStyle binds, by field.
Bindings(typo, familyVar, weightVar) ==
    [fontSize |-> "typography/size/" \o typo.name,
     lineHeight |-> "typography/leading/" \o typo.name,
     fontFamily |-> familyVar,
     fontWeight |-> weightVar,
     letterSpacing |-> LetterSpacingName(typo)]
\* Step 4: with font weights imported and present, for each weight its
\* variable set again and the style text-<size>/<weight>; otherwise the
\* single style text-<size>, whose weight variable is the default one,
\* which is then undefined.
TextStyles(typo, tokens, options, familyVar, loads) ==
    IF options.importFontWeights /\ Len(tokens.fontWeights) > 0
    THEN EachToken(tokens.fontWeights,
                   LAMBDA fw :
                       <<ValueStep("typography/weight/" \o Join(fw.path, "/"), fw.value),
                         TextStyleStep("text-" \o typo.name \o "/" \o Join(fw.path, "/"),
                                       [typo EXCEPT !.fontWeight = fw.value],
                                       Bindings(typo, familyVar,
                                                "typography/weight/" \o Join(fw.path, "/")),
                                       loads)>>,
                   1)
    ELSE <<TextStyleStep("text-" \o typo.name, typo, Bindings(typo, familyVar, ""), loads)>>
Typography(tokens, options, loads) ==
    Phase(options.importTypography, "Typography",
          EachToken(tokens.typography,
                    LAMBDA typo :
                        SizeVariables(typo)
                            \o TextStyles(typo, tokens, options,
                                          DefaultFontFamilyVar(tokens, options), loads)
                            \o <<CountStep(1)>>,
                    1)
              \o <<CountStep(Len(tokens.fonts))>>)

\* The body of importPrimitives after `info` and `modeId`, in order.
PrimitiveSteps(tokens, options, loads) ==
    Fonts(tokens, options) \o FontWeights(tokens, options) \o Colors(tokens, options)
        \o Spacing(tokens, options) \o Radius(tokens, options) \o Blur(tokens, options)
        \o OpacityAlways(tokens) \o Breakpoints(tokens, options) \o Containers(tokens, options)
        \o Tracking(tokens, options) \o Leading(tokens, options) \o MaxWidth(tokens, options)
        \o BorderWidth(tokens, options) \o Opacity(tokens, options) \o Skew(tokens, options)
        \o Typography(tokens, options, loads) \o Shadows(tokens, options)

(***************************************************************************)
(* figmaSync: what a step does to the import in progress                   *)
(***************************************************************************)
\* onProgress({current, total, phase})
Report(st, phase) ==
    [st EXCEPT !.reports = Append(@, [current |-> st.current, total |-> st.total,
                                      phase |-> phase])]
ReportAtMultiple(st, phase, every) ==
    IF st.current % every = 0 THEN Report(st, phase) ELSE st
Counted(st, n) == [st EXCEPT !.current = @ + n]
WithVariable(st, o) ==
    [st EXCEPT !.doc =
        IF o.scoped THEN SetVariable(@, st.c, st.modeId, o.name, o.type, o.value, o.scopes)
        ELSE SetValueOnly(@, st.c, st.modeId, o.name, o.type, o.value)]
WithStyle(st, kind, name, value) == [st EXCEPT !.doc = CreateStyle(@, kind, name, value)]
\* The id of the variable of that name and type in the collection, 0 for
\* the name "" (undefined).
VariableId(st, name, type) ==
    IF name = "" THEN 0 ELSE VariableNamed(st.doc, st.c, name, type)
BlurEffect(radius, isBackdrop, id) ==
    [type |-> IF isBackdrop THEN "BACKGROUND_BLUR" ELSE "LAYER_BLUR", radius |-> radius,
     boundVariables |-> Alias(id)]
WithBlurStyle(st, o) ==
    WithStyle(st, "EFFECT", o.name,
              BlurEffect(o.radius, o.isBackdrop, VariableId(st, o.name, "FLOAT")))

\* createTextStyle: the style as found or as created, with the fields the
\* call assigns.  `loads` is "family" when the mapped family loads,
\* "inter" when only Inter does, "none" when neither does and the call
\* returns before the style is looked up.
BlankTextStyle ==
    [fontName |-> "", fontSize |-> Undefined, lineHeight |-> Undefined,
     letterSpacing |-> Undefined, bound |-> NoValues]
StyleLineHeight(old, typo) ==
    IF typo.lineHeight # Undefined /\ Lt(Num(0), typo.lineHeight)
    THEN (IF Lt(typo.lineHeight, Num(4 * Scale)) THEN Times(typo.fontSize, typo.lineHeight)
          ELSE typo.lineHeight)
    ELSE old
RECURSIVE BindAll(_, _, _)
BindAll(bound, fields, ids) ==
    IF fields = <<>> THEN bound
    ELSE BindAll(IF Head(ids) > 0 THEN MapSet(bound, Head(fields), Head(ids)) ELSE bound,
                 Tail(fields), Tail(ids))
TextStyleValue(old, typo, fontName, ids) ==
    [fontName |-> fontName,
     fontSize |-> typo.fontSize,
     lineHeight |-> StyleLineHeight(old.lineHeight, typo),
     letterSpacing |-> IF typo.letterSpacing # Undefined THEN typo.letterSpacing
                       ELSE old.letterSpacing,
     bound |-> BindAll(old.bound,
                       <<"fontSize", "lineHeight", "fontFamily", "fontWeight", "letterSpacing">>,
                       ids)]
StyleValueAt(d, i) == IF i > 0 THEN d.styles[i].value ELSE BlankTextStyle
\* `defaultFontFamilyVar ? defaultFontFamilyVar.valuesByMode[modeId] : 'Inter'`
FamilyName(st, familyVar) ==
    IF familyVar > 0 THEN st.doc.variables[familyVar].values[st.modeId] ELSE "Inter"
BoundIds(st, bind) ==
    <<VariableId(st, bind.fontSize, "FLOAT"), VariableId(st, bind.lineHeight, "FLOAT"),
      VariableId(st, bind.fontFamily, "STRING"), VariableId(st, bind.fontWeight, "FLOAT"),
      VariableId(st, bind.letterSpacing, "FLOAT")>>
createTextStyle(st, o) ==
    IF o.loads = "none" THEN st
    ELSE WithStyle(st, "TEXT", o.name,
                   TextStyleValue(StyleValueAt(st.doc, StyleNamed(st.doc, "TEXT", o.name)),
                                  o.typo,
                                  IF o.loads = "family"
                                  THEN mapFontFamily(FamilyName(st, VariableId(st, o.bind.fontFamily,
                                                                               "STRING")))
                                  ELSE "Inter",
                                  BoundIds(st, o.bind)))
PrimitiveStep(st, o) ==
    CASE o.op = "report" -> Report(st, o.phase)
      [] o.op = "reportAtMultiple" -> ReportAtMultiple(st, o.phase, o.every)
      [] o.op = "count" -> Counted(st, o.n)
      [] o.op = "variable" -> WithVariable(st, o)
      [] o.op = "style" -> WithStyle(st, o.kind, o.name, o.value)
      [] o.op = "blurStyle" -> WithBlurStyle(st, o)
      [] o.op = "textStyle" -> createTextStyle(st, o)
\* The steps lo..hi of the list run in order: the first half, then, unless
\* a step threw, the second half on what the first left.
RECURSIVE RunSteps(_, _, _, _, _)
RunSteps(st, steps, Step(_, _), lo, hi) ==
    IF lo > hi THEN st
    ELSE IF lo = hi THEN Step(st, steps[lo])
    ELSE LET half == RunSteps(st, steps, Step, lo, (lo + hi) \div 2)
         IN  IF half.thrown THEN half
             ELSE RunSteps(half, steps, Step, (lo + hi) \div 2 + 1, hi)

\* `onProgress({current: total, total, phase: 'Done'})`
Done(st) ==
    IF st.thrown THEN st
    ELSE [st EXCEPT !.reports = Append(@, [current |-> st.total, total |-> st.total,
                                           phase |-> "Done"])]
\* `total`, `current = 0`, findOrCreateCollection and the first mode id
Started(found, total) ==
    [doc |-> found.doc, c |-> found.id,
     modeId |-> found.doc.collections[found.id].modes[1].modeId,
     total |-> total, current |-> 0, reports |-> <<>>, thrown |-> FALSE]
RunPrimitives(st, steps) == Done(RunSteps(st, steps, PrimitiveStep, 1, Len(steps)))
\* importPrimitives(tokens, options, onProgress) on the document d: the
\* document afterwards, the collection, and the reports passed to
\* onProgress.
importPrimitives(d, tokens, options, loads) ==
    RunPrimitives(Started(findOrCreateCollection(d, options.collectionName),
                          countTokens(tokens, options)),
                  PrimitiveSteps(tokens, options, loads))

(***************************************************************************)
(* figmaSync: importThemeTokens, with resolveColorAlias and colorsMatch    *)
(***************************************************************************)
\* lightTokens and darkTokens are records in insertion order: sequences of
\* <<key, value>> with no key twice.
RECURSIVE KeysOf(_)
KeysOf(tokens) == IF tokens = <<>> THEN <<>> ELSE <<Head(tokens)[1]>> \o KeysOf(Tail(tokens))
HasKey(tokens, key) == \E k \in 1..Len(tokens) : tokens[k][1] = key
\* tokens[key] as `value ? ... : null` reads it: the value, "" for a
\* missing key (undefined and '' are both falsy)
ValueOf(tokens, key) ==
    IF HasKey(tokens, key)
    THEN tokens[FirstIndex({k \in 1..Len(tokens) : tokens[k][1] = key})][2]
    ELSE ""
\* new Set([...Object.keys(lightTokens), ...Object.keys(darkTokens)])
AllKeys(light, dark) ==
    KeysOf(light) \o SelectSeq(KeysOf(dark), LAMBDA key : ~HasKey(light, key))

\* colorsMatch(a, b, tolerance = 0.005)
Tolerance == Num(50)
Near(x, y) == Lt(Abs(Sub(x, y)), Tolerance)
colorsMatch(a, b) == Near(a.r, b.r) /\ Near(a.g, b.g) /\ Near(a.b, b.b) /\ Near(a.a, b.a)

\* `val && typeof val === 'object' && 'r' in val`
IsColorValue(values, modeId) ==
    /\ modeId \in DOMAIN values
    /\ "r" \in DOMAIN values[modeId]
\* resolveColorAlias(color, primitiveVariables, primitiveModeId): the id of
\* the first of the listed variables that is a COLOR whose value in the
\* mode is a colour matching `color`, 0 (null) when there is none.
Matching(d, color, primitiveVars, primitiveModeId) ==
    {k \in 1..Len(primitiveVars) :
        /\ d.variables[primitiveVars[k]].type = "COLOR"
        /\ IsColorValue(d.variables[primitiveVars[k]].values, primitiveModeId)
        /\ colorsMatch(d.variables[primitiveVars[k]].values[primitiveModeId], color)}
AtOrNone(primitiveVars, k) == IF k > 0 THEN primitiveVars[k] ELSE 0
resolveColorAlias(d, color, primitiveVars, primitiveModeId) ==
    AtOrNone(primitiveVars, FirstIndex(Matching(d, color, primitiveVars, primitiveModeId)))

\* `value ? parseColorValue(value) : null`
ColorOrNull(value) == IF value = "" THEN Null ELSE parseColorValue(value)
\* One mode of one theme variable: the alias when one resolves, the colour
\* otherwise; nothing for a null colour.
AliasOrColor(alias, color) == IF alias > 0 THEN Alias(alias) ELSE color
SetMode(found, modeId, color, prim) ==
    IF color = Null THEN found
    ELSE SetValue(found, modeId,
                  AliasOrColor(resolveColorAlias(found.doc, color, prim.vars, prim.modeId),
                               color))
ThemeVariable(st, cleanName, lightColor, darkColor, prim) ==
    IF lightColor = Null /\ darkColor = Null THEN st
    ELSE [st EXCEPT !.doc =
             SetMode(SetMode([doc |-> applyScopes(
                                          findOrCreateVariable(@, st.c, cleanName, "COLOR"),
                                          {"ALL_FILLS", "STROKE_COLOR", "EFFECT_COLOR"}),
                              id |-> findOrCreateVariable(@, st.c, cleanName, "COLOR").id],
                             st.light, lightColor, prim),
                     st.dark, darkColor, prim).doc]
\* The loop body for one key; a throw of parseColorValue leaves the loop.
ThemeKey(st, key, lightColor, darkColor, prim) ==
    IF lightColor = Throw \/ darkColor = Throw THEN [st EXCEPT !.thrown = TRUE]
    ELSE ReportAtMultiple(Counted(ThemeVariable(st, ReplacePrefix(key, "--", ""), lightColor,
                                                darkColor, prim), 1),
                          "Theme", 10)
RECURSIVE ThemeLoop(_, _, _, _, _)
ThemeLoop(st, options, keys, prim, k) ==
    IF k > Len(keys) \/ st.thrown THEN st
    ELSE ThemeLoop(ThemeKey(st, keys[k], ColorOrNull(ValueOf(options.lightTokens, keys[k])),
                            ColorOrNull(ValueOf(options.darkTokens, keys[k])), prim),
                   options, keys, prim, k + 1)

\* The primitive collection found by name after the theme collection
\* exists: its variables at that time and its first mode id.
Primitives(d, i) ==
    IF i > 0 THEN [vars |-> VariablesIn(d, i, 1), modeId |-> d.collections[i].modes[1].modeId]
    ELSE [vars |-> <<>>, modeId |-> ""]
ThemeStarted(d, c, total) ==
    [doc |-> d, c |-> c,
     light |-> d.collections[c].modes[1].modeId,
     dark |-> d.collections[c].modes[ModeNamed(d.collections[c].modes, "Dark")].modeId,
     total |-> total, current |-> 0, reports |-> <<>>, thrown |-> FALSE]
ThemeIn(d, c, options) ==
    Done(ThemeLoop(Report(ThemeStarted(d, c, Len(AllKeys(options.lightTokens,
                                                                  options.darkTokens))),
                          "Theme"),
                   options, AllKeys(options.lightTokens, options.darkTokens),
                   Primitives(d, CollectionNamed(d, options.primitiveCollectionName)), 1))
ThemeFound(found, options) == ThemeIn(ensureModes(found.doc, found.id), found.id, options)
\* importThemeTokens(options, onProgress) on the document d
importThemeTokens(d, options) ==
    ThemeFound(findOrCreateCollection(d, options.collectionName), options)
(***************************************************************************)
(* The state machines                                                      *)
(***************************************************************************)
\* categorizeTokens about to start on one of the input lists.
InitCat ==
    /\ vars \in CatInputs
    /\ idx = 1
    /\ result = EmptyTokenSet
    /\ hoisted = NoHoisted
    /\ pc = "loop"
    /\ src = <<>>
    /\ fn = "none" /\ arg = "" /\ ret = Null
    /\ adapters = BuiltinAdapters
    /\ InitPlugin

\* A pure function about to be called on arg; src is what arg was written
\* from.
InitCall(sources) ==
    /\ vars = <<>>
    /\ idx = 1
    /\ result = EmptyTokenSet
    /\ hoisted = NoHoisted
    /\ pc = "idle"
    /\ src \in sources
    /\ fn = "none" /\ ret = Null
    /\ adapters = BuiltinAdapters
    /\ InitPlugin

InitColor == InitCall(ColorInputs) /\ arg = src
InitExtract == InitCall(DeclSources) /\ arg = RenderFlat(src)
InitTheme == InitCall(BlockSources) /\ arg = RenderBlocks(src, 1)

\* One pass of the for loop of categorizeTokens: on to the next variable,
\* or out of the function when the pass throws.
StepTo(next, loc) ==
    IF next = Throw
    THEN pc' = "threw" /\ UNCHANGED <<result, hoisted, idx>>
    ELSE result' = next /\ hoisted' = loc /\ idx' = idx + 1 /\ pc' = pc
Step ==
    /\ pc = "loop" /\ idx <= Len(vars)
    /\ StepTo(CategorizeVar(result, hoisted, vars[idx], vars),
              HoistedAfterVar(hoisted, vars[idx], vars))
    /\ UNCHANGED <<vars, src, fn, arg, ret, adapters, pluginVars>>

\* The end of the loop: the spacing scale, then the return.
Finish ==
    /\ pc = "loop" /\ idx > Len(vars)
    /\ result' = SynthesizeSpacing(result)
    /\ pc' = "done"
    /\ UNCHANGED <<vars, idx, hoisted, src, fn, arg, ret, adapters, pluginVars>>

\* The calls of the pure functions.
CallParseColor ==
    /\ fn = "none"
    /\ fn' = "parseColorValue" /\ ret' = parseColorValue(arg)
    /\ UNCHANGED <<vars, idx, result, hoisted, pc, src, arg, adapters, pluginVars>>
CallExtract ==
    /\ fn = "none"
    /\ fn' = "extractCSSVariables" /\ ret' = extractCSSVariables(arg)
    /\ UNCHANGED <<vars, idx, result, hoisted, pc, src, arg, adapters, pluginVars>>
CallParseRootAndDark ==
    /\ fn = "none"
    /\ fn' = "parseRootAndDark" /\ ret' = parseRootAndDark(arg)
    /\ UNCHANGED <<vars, idx, result, hoisted, pc, src, arg, adapters, pluginVars>>

NextCat == Step \/ Finish

SpecCat == InitCat /\ [][NextCat]_allVars
SpecColor == InitColor /\ [][CallParseColor]_allVars
SpecExtract == InitExtract /\ [][CallExtract]_allVars
SpecTheme == InitTheme /\ [][CallParseRootAndDark]_allVars

(***************************************************************************)
(* The documented rules of the categorizer, stated on their own: the       *)
(* family of the first rule, in the documented order, that claims a        *)
(* stripped name, "none" when no rule does.                                *)
(***************************************************************************)
BareOrPath(name, word) == name = word \/ StartsWith(name, word \o "-")
ModifierSuffix(name) ==
    \E suffix \in {"--line-height", "--letter-spacing", "--font-weight"} : EndsWith(name, suffix)
DocFamily(name) ==
    IF StartsWith(name, "color-") THEN "colors"
    ELSE IF name = "spacing" THEN "spacing"
    ELSE IF StartsWith(name, "breakpoint-") THEN "breakpoints"
    ELSE IF StartsWith(name, "container-") THEN "containers"
    ELSE IF StartsWith(name, "max-w-") \/ StartsWith(name, "max-width-") THEN "maxWidth"
    ELSE IF StartsWith(name, "font-weight-") THEN "fontWeights"
    ELSE IF StartsWith(name, "tracking-") THEN "tracking"
    ELSE IF StartsWith(name, "leading-") THEN "leading"
    ELSE IF BareOrPath(name, "radius") THEN "radius"
    ELSE IF StartsWith(name, "inset-shadow-") \/ StartsWith(name, "drop-shadow-")
            \/ StartsWith(name, "text-shadow-")
            \/ (StartsWith(name, "shadow-") /\ ~StartsWith(name, "shadow-inner"))
    THEN "shadows"
    ELSE IF BareOrPath(name, "blur") THEN "blur"
    ELSE IF BareOrPath(name, "backdrop-blur") THEN "backdropBlur"
    ELSE IF StartsWith(name, "text-") /\ ~Includes(name, "shadow") /\ ~ModifierSuffix(name)
    THEN "typography"
    ELSE IF StartsWith(name, "font-") THEN "fonts"
    ELSE IF StartsWith(name, "opacity-") THEN "opacity"
    ELSE IF StartsWith(name, "border-width-") THEN "borderWidth"
    ELSE IF StartsWith(name, "skew-") THEN "skew"
    ELSE "none"

\* A pass of the loop that returns to the loop, and the name it is about.
Pass == pc = "loop" /\ idx <= Len(vars) /\ pc' = "loop"
PassName == StrippedName(vars[idx])

\* The pass appends at most one token, and only to the given family.
AppendsOnlyTo(family) ==
    \A f \in Families :
        IF f = family
        THEN /\ Len(result'[f]) <= Len(result[f]) + 1
             /\ SubSeq(result'[f], 1, Len(result[f])) = result[f]
        ELSE result'[f] = result[f]

(***************************************************************************)
(* C1                                                                      *)
(***************************************************************************)
\* C1: every pass of the loop places its variable in at most one family,
\* the family of the first documented rule whose name test matches the
\* stripped name, and in no family when no documented rule matches.
C1_FirstDocumentedRuleWins == [][Pass => AppendsOnlyTo(DocFamily(PassName))]_allVars

(***************************************************************************)
(* C2                                                                      *)
(***************************************************************************)
RemoveAt(all, k) == [i \in 1..(Len(all) - 1) |-> IF i < k THEN all[i] ELSE all[i + 1]]

DimensionFamilies ==
    {"spacing", "breakpoints", "containers", "maxWidth", "tracking", "radius", "blur",
     "backdropBlur", "borderWidth", "typography"}
NumberFamilies == {"fontWeights", "leading", "opacity", "skew"}

\* The converter of the variable's family returns its absence marker.
RejectedIn(family, name, raw) ==
    CASE family = "colors" -> parseColorValue(raw) = Null
      [] family \in DimensionFamilies -> parseDimension(raw) = Null
      [] family \in NumberFamilies -> isNaN(parseFloat(raw))
      [] family = "shadows" -> parseShadowValue(raw) = <<>>
      [] StartsWith(name, "text-") /\ EndsWith(name, "--line-height") ->
             evaluateCalc(raw) = Undefined
      [] StartsWith(name, "text-") /\ EndsWith(name, "--letter-spacing") ->
             parseDimension(raw) = Null
      [] StartsWith(name, "text-") /\ EndsWith(name, "--font-weight") ->
             isNaN(parseFloat(raw))
      [] OTHER -> FALSE
Rejected(v) == RejectedIn(DocFamily(StrippedName(v)), StrippedName(v), v.rawValue)

\* C2: when categorizeTokens has returned, every variable whose value its
\* converter rejected has left the token set exactly as it would be had the
\* variable not stood in the list.
C2_RejectedVariableIsInert ==
    pc = "done" =>
        \A k \in 1..Len(vars) :
            Rejected(vars[k]) => result = categorizeTokens(RemoveAt(vars, k))

(***************************************************************************)
(* C3                                                                      *)
(***************************************************************************)
\* The positions of the `--spacing` declarations parseDimension accepts.
SpacingBases(all) ==
    {k \in 1..Len(all) : all[k].name = "--spacing" /\ parseDimension(all[k].rawValue) # Null}

\* The fixed table: the step names as they are written with '_' for '.',
StepNames ==
    <<"0_5", "1", "1_5", "2", "2_5", "3", "3_5", "4", "5", "6", "7", "8", "9", "10",
      "11", "12", "14", "16", "20", "24", "28", "32", "36", "40", "44", "48", "52", "56",
      "60", "64", "72", "80", "96">>
\* and the steps in tenths.
StepTenths ==
    <<5, 10, 15, 20, 25, 30, 35, 40, 50, 60, 70, 80, 90, 100, 110, 120, 140, 160, 200,
      240, 280, 320, 360, 400, 440, 480, 520, 560, 600, 640, 720, 800, 960>>
StepTimes(k, base) == Num((StepTenths[k] * base.v) \div 10)
ScaleOf(base) ==
    [k \in 1..Len(StepNames) |->
        [path |-> <<StepNames[k]>>, value |-> StepTimes(k, base),
         rawValue |-> NumberToString(StepTimes(k, base)) \o "px"]]

\* The k-th smallest element of a set of positions.
RECURSIVE NthOf(_, _)
NthOf(S, k) ==
    IF k = 1 THEN CHOOSE x \in S : \A y \in S : x <= y
    ELSE NthOf(S \ {CHOOSE x \in S : \A y \in S : x <= y}, k - 1)

BaseEntries(all) ==
    [i \in 1..Cardinality(SpacingBases(all)) |->
        [path |-> <<"base">>,
         value |-> parseDimension(all[NthOf(SpacingBases(all), i)].rawValue),
         rawValue |-> all[NthOf(SpacingBases(all), i)].rawValue]]

\* C3 as stated: the spacing family has 33 entries if and only if the list
\* held exactly one `--spacing` declaration with a parseable dimension.
C3_ThirtyThreeIffOneBase ==
    pc = "done" => (Len(result.spacing) = 33 <=> Cardinality(SpacingBases(vars)) = 1)

\* C3 amended: when the list held exactly one `--spacing` declaration with
\* a parseable dimension, the spacing family is the 33-step scale of that
\* base, one entry per step of the fixed table; with zero, or with two or
\* more, no scale is synthesized and the family is the list of the base
\* entries themselves, one per such declaration, in input order.
C3_ScaleIffOneBase ==
    pc = "done" =>
        IF Cardinality(SpacingBases(vars)) = 1
        THEN result.spacing = ScaleOf(BaseEntries(vars)[1].value)
        ELSE result.spacing = BaseEntries(vars)

\* One parseable base among several `--spacing` declarations, expanded.
C3_Witness ==
    /\ pc = "done"
    /\ Cardinality(SpacingBases(vars)) = 1
    /\ Cardinality({k \in 1..Len(vars) : vars[k].name = "--spacing"}) >= 2
    /\ Len(result.spacing) = 33
    /\ result.spacing[8].path = <<"4">>
    /\ result.spacing[8].value = Num(16 * Scale)

(***************************************************************************)
(* C4                                                                      *)
(***************************************************************************)
\* The positions of the text sizes that give a record.
TextSizes(all) ==
    {k \in 1..Len(all) :
        /\ DocFamily(StrippedName(all[k])) = "typography"
        /\ parseDimension(all[k].rawValue) # Null}

\* The sibling of a text size: the first variable of that name anywhere in
\* the list, Undefined when there is none.
Sibling(all, k, suffix) ==
    IF \E j \in 1..Len(all) : all[j].name = all[k].name \o suffix
    THEN all[CHOOSE j \in 1..Len(all) :
                 /\ all[j].name = all[k].name \o suffix
                 /\ \A i \in 1..(j - 1) : all[i].name # all[k].name \o suffix]
    ELSE Undefined
SiblingLineHeight(s) == IF s = Undefined THEN Undefined ELSE evaluateCalc(s.rawValue)
SiblingLetterSpacing(s) ==
    IF s = Undefined \/ parseDimension(s.rawValue) = Null
    THEN Undefined
    ELSE parseDimension(s.rawValue)
SiblingFontWeight(s) ==
    IF s = Undefined \/ isNaN(parseFloat(s.rawValue))
    THEN Undefined
    ELSE parseFloat(s.rawValue)
ExpectedRecord(all, k) ==
    [name |-> SubSeq(all[k].name, 8, Len(all[k].name)),
     fontSize |-> parseDimension(all[k].rawValue),
     lineHeight |-> SiblingLineHeight(Sibling(all, k, "--line-height")),
     letterSpacing |-> SiblingLetterSpacing(Sibling(all, k, "--letter-spacing")),
     fontWeight |-> SiblingFontWeight(Sibling(all, k, "--font-weight")),
     rawValue |-> all[k].rawValue]
ExpectedTypography(all) ==
    [i \in 1..Cardinality(TextSizes(all)) |-> ExpectedRecord(all, NthOf(TextSizes(all), i))]

\* C4: when categorizeTokens has returned, the typography family holds one
\* record per text size with a parseable dimension, in input order, and
\* each record's lineHeight, letterSpacing and fontWeight are those of the
\* sibling modifier variables of the same size, wherever they stand.
C4_TypographyFromOwnSiblings == pc = "done" => result.typography = ExpectedTypography(vars)

\* C4, the part about the records alone: one record per text size with a
\* parseable dimension, in input order, none for a modifier variable.
C4_OneRecordPerTextSize ==
    pc = "done" =>
        /\ Len(result.typography) = Cardinality(TextSizes(vars))
        /\ \A i \in 1..Len(result.typography) :
               /\ result.typography[i].name = ExpectedTypography(vars)[i].name
               /\ result.typography[i].fontSize = ExpectedTypography(vars)[i].fontSize
               /\ result.typography[i].rawValue = ExpectedTypography(vars)[i].rawValue

(***************************************************************************)
(* C7                                                                      *)
(***************************************************************************)
\* C7: a pass over a variable whose stripped name matches none of the
\* documented rules leaves every family as it was.
C7_UnmatchedNameIsDropped == [][(Pass /\ DocFamily(PassName) = "none") => result' = result]_allVars

(***************************************************************************)
(* C8                                                                      *)
(***************************************************************************)
PathFamilies ==
    {"colors", "spacing", "radius", "blur", "backdropBlur", "opacity", "breakpoints",
     "containers", "fontWeights", "tracking", "leading", "borderWidth", "maxWidth", "skew"}
NonEmptyPath(path) == Len(path) >= 1 /\ \A i \in 1..Len(path) : path[i] # ""
AfterNamespace(name) ==
    IF Includes(name, "/") THEN SubSeq(name, IndexOf(name, "/") + 1, Len(name)) ELSE name
TokensOf(family) == {result[family][i] : i \in 1..Len(result[family])}

\* C8: in the token set categorizeTokens returns, every path has at least
\* one segment and no empty segment, and every shadow, typography and font
\* name has a non-empty part after its namespace.
C8_NoEmptyPathOrName ==
    pc = "done" =>
        /\ \A f \in PathFamilies : \A t \in TokensOf(f) : NonEmptyPath(t.path)
        /\ \A f \in {"shadows", "typography", "fonts"} :
               \A t \in TokensOf(f) : AfterNamespace(t.name) # ""

(***************************************************************************)
(* C5, C6                                                                  *)
(***************************************************************************)
\* The documented forms, told from the trimmed, lower-cased input alone.
LowerHexDigits == Digits \cup {"a", "b", "c", "d", "e", "f"}
FunctionalForm(v) ==
    /\ EndsWith(v, ")")
    /\ \E f \in {"oklch(", "hsl(", "hsla(", "rgb(", "rgba("} : StartsWith(v, f)
HexForm(v) ==
    /\ StartsWith(v, "#")
    /\ Len(v) - 1 \in {3, 4, 6, 8}
    /\ \A i \in 2..Len(v) : Ch(v, i) \in LowerHexDigits
NamedForm(v) == v \in {"black", "white", "transparent"}
DocumentedForm(v) == FunctionalForm(v) \/ HexForm(v) \/ NamedForm(v)
Called(f) == fn = f
Normalized == ToLowerCase(Trim(arg))

\* C5: parseColorValue never throws, and returns a Color only when the
\* trimmed, lower-cased input is one of the documented forms; for every
\* other input it returns null.
C5_ColorOnlyForDocumentedForms ==
    Called("parseColorValue") =>
        /\ ret # Throw
        /\ (~DocumentedForm(Normalized) => ret = Null)

\* C6: every Color parseColorValue returns for an input of a documented
\* form has its four channels r, g, b and a within [0, 1].
InUnitInterval(n) == IsNum(n) /\ 0 <= n.v /\ n.v <= Scale
C6_ChannelsInUnitInterval ==
    (Called("parseColorValue") /\ ret \notin {Null, Throw} /\ DocumentedForm(Normalized)) =>
        \A ch \in {"r", "g", "b", "a"} : InUnitInterval(ret[ch])

(***************************************************************************)
(* C9                                                                      *)
(***************************************************************************)
HasNoRun(s) == ~Includes(s, "\n") /\ ~Includes(s, "  ") /\ ~Includes(s, ";")

FirstBody(blocks, selector) ==
    IF \E k \in 1..Len(blocks) : blocks[k].selector = selector
    THEN blocks[CHOOSE k \in 1..Len(blocks) :
                    /\ blocks[k].selector = selector
                    /\ \A i \in 1..(k - 1) : blocks[i].selector # selector].body
    ELSE <<>>
\* The names a body declares, each with the value of its last declaration.
LastDeclared(body) ==
    [n \in {body[i][1] : i \in 1..Len(body)} |->
        body[CHOOSE i \in 1..Len(body) :
                 /\ body[i][1] = n
                 /\ \A j \in (i + 1)..Len(body) : body[j][1] # n][2]]

GreedyThemePattern ==
    <<Lit("@theme"), Plus(Whitespace), Class({"{"}, TRUE, 0, TRUE, FALSE), Lit("{"),
      Open(1), Class({}, TRUE, 0, TRUE, FALSE), Close(1), Lit("\n}")>>

\* /@theme\s+[^{]*\{([\s\S]*?)\n\}/
ThemePattern ==
    <<Lit("@theme"), Plus(Whitespace), Class({"{"}, TRUE, 0, TRUE, FALSE), Lit("{"),
      Open(1), LazyStarNot({}), Close(1), Lit("\n}")>>

ThemeVars(themeMatch) ==
    IF ~themeMatch.ok THEN <<>> ELSE extractCSSVariables(themeMatch.g[1])
parseThemeBlock(css) == ThemeVars(Match(ThemePattern, css))

\* tailwindAdapter.fetchAndParse, up to the call of categorizeTokens: the
\* variables of the theme block, or of the whole text when there are none.
FallbackVars(themeVars, css) ==
    IF Len(themeVars) = 0 THEN extractCSSVariables(css) ELSE themeVars
fetchAndParseVars(css) == FallbackVars(parseThemeBlock(css), css)

\* Stylesheets of up to MaxThemeBlocks blocks: a header, a body of
\* declarations each on a line of its own, and a closing brace either on a
\* line of its own or at the end of the last line.
MaxThemeBlocks == 2
ThemeHeaders == {"@theme ", "@theme inline reference ", "@theme", ".x "}
ThemeBodies ==
    {<<>>,
     <<CSSVariable("--a", "1")>>,
     <<CSSVariable("--a", "1"), CSSVariable("--b", "2")>>}
ThemeCloses == {"\n}", " }"}
ThemeBlockPool ==
    {[header |-> h, body |-> b, close |-> c] :
        h \in ThemeHeaders, b \in ThemeBodies, c \in ThemeCloses}
ThemeSources == SeqsUpTo(ThemeBlockPool, MaxThemeBlocks)

RECURSIVE RenderThemeBody(_, _)
RenderThemeBody(body, k) ==
    IF k > Len(body) THEN ""
    ELSE "\n  " \o body[k].name \o ": " \o body[k].rawValue \o ";"
             \o RenderThemeBody(body, k + 1)
RECURSIVE RenderTheme(_, _)
RenderTheme(blocks, k) ==
    IF k > Len(blocks) THEN ""
    ELSE blocks[k].header \o "{" \o RenderThemeBody(blocks[k].body, 1) \o blocks[k].close
             \o "\n" \o RenderTheme(blocks, k + 1)

InitThemeBlock == InitCall(ThemeSources) /\ arg = RenderTheme(src, 1)

CallParseThemeBlock ==
    /\ fn = "none"
    /\ fn' = "parseThemeBlock" /\ ret' = parseThemeBlock(arg)
    /\ UNCHANGED <<vars, idx, result, hoisted, pc, src, arg, adapters, pluginVars>>
CallFetchAndParse ==
    /\ fn = "none"
    /\ fn' = "fetchAndParse" /\ ret' = fetchAndParseVars(arg)
    /\ UNCHANGED <<vars, idx, result, hoisted, pc, src, arg, adapters, pluginVars>>

NextThemeBlock == CallParseThemeBlock \/ CallFetchAndParse
SpecThemeBlock == InitThemeBlock /\ [][NextThemeBlock]_allVars

(***************************************************************************)
(* C11                                                                     *)
(***************************************************************************)
IsThemeHeader(h) == StartsWith(h, "@theme")
IsSpacedThemeHeader(h) == IsThemeHeader(h) /\ Len(h) >= 7 /\ IsWs(Ch(h, 7))

\* The position of the first block of the kind, and of the first block from
\* k on whose closing brace starts a line; 0 when there is none.
FirstIn(S) == IF S = {} THEN 0 ELSE CHOOSE x \in S : \A y \in S : x <= y
FirstThemeBlock(blocks) == FirstIn({k \in 1..Len(blocks) : IsThemeHeader(blocks[k].header)})
FirstSpacedThemeBlock(blocks) ==
    FirstIn({k \in 1..Len(blocks) : IsSpacedThemeHeader(blocks[k].header)})
SpanEnd(blocks, k) == FirstIn({j \in k..Len(blocks) : blocks[j].close = "\n}"})

RECURSIVE DeclarationsOf(_, _, _)
DeclarationsOf(blocks, k, j) ==
    IF k > j THEN <<>> ELSE blocks[k].body \o DeclarationsOf(blocks, k + 1, j)
\* The declarations between the opening brace of block k and the first
\* following line that starts with '}'.
SpanFrom(blocks, k) ==
    IF k = 0 \/ SpanEnd(blocks, k) = 0 THEN <<>>
    ELSE DeclarationsOf(blocks, k, SpanEnd(blocks, k))
OrAll(span, blocks) == IF span = <<>> THEN DeclarationsOf(blocks, 1, Len(blocks)) ELSE span

\* C11 as stated: parseThemeBlock returns the declarations between the
\* opening brace of the first `@theme` block, however it is written, and
\* the first following line that starts with '}', an empty list when there
\* is no such span; the adapter then extracts from the whole text.
C11_FirstThemeBlock ==
    /\ Called("parseThemeBlock") => ret = SpanFrom(src, FirstThemeBlock(src))
    /\ Called("fetchAndParse") => ret = OrAll(SpanFrom(src, FirstThemeBlock(src)), src)

\* C11 amended: the block is the first `@theme` that is followed by
\* whitespace, then by its modifiers if any, then by '{'; an `@theme{`
\* written without whitespace is not a theme block.
C11_FirstSpacedThemeBlock ==
    /\ Called("parseThemeBlock") => ret = SpanFrom(src, FirstSpacedThemeBlock(src))
    /\ Called("fetchAndParse") => ret = OrAll(SpanFrom(src, FirstSpacedThemeBlock(src)), src)

\* A theme block with modifiers after a block of declarations that stay
\* outside.
C11_Witness ==
    /\ Called("parseThemeBlock")
    /\ Len(src) = 2
    /\ src[1].header = ".x " /\ Len(src[1].body) = 1
    /\ src[2].header = "@theme inline reference " /\ src[2].close = "\n}"
    /\ ret = <<CSSVariable("--a", "1"), CSSVariable("--b", "2")>>

(***************************************************************************)
(* splitShadowParts on its own                                             *)
(***************************************************************************)
\* Strings of up to MaxSplitLen characters of a shadow list.
MaxSplitLen == 5
SplitAlphabet == {"a", ",", "(", ")", " "}
SplitInputs == StringsUpTo(SplitAlphabet, MaxSplitLen)

InitSplit == InitCall(SplitInputs) /\ arg = src
CallSplitShadowParts ==
    /\ fn = "none"
    /\ fn' = "splitShadowParts" /\ ret' = splitShadowParts(arg)
    /\ UNCHANGED <<vars, idx, result, hoisted, pc, src, arg, adapters, pluginVars>>
SpecSplit == InitSplit /\ [][CallSplitShadowParts]_allVars

(***************************************************************************)
(* C12                                                                     *)
(***************************************************************************)
CountBefore(s, c, i) == Cardinality({j \in 1..(i - 1) : Ch(s, j) = c})
\* The counter of the documented splitter before position i: the '(' seen
\* less the ')' seen.
SignedDepth(s, i) == CountBefore(s, "(", i) - CountBefore(s, ")", i)
\* The parentheses open at position i: a ')' closes the last '(' still
\* open, and closes nothing when none is.
RECURSIVE OpenAt(_, _)
OpenAt(s, i) ==
    IF i <= 1 THEN 0
    ELSE IF Ch(s, i - 1) = "(" THEN OpenAt(s, i - 1) + 1
    ELSE IF Ch(s, i - 1) = ")" /\ OpenAt(s, i - 1) > 0 THEN OpenAt(s, i - 1) - 1
    ELSE OpenAt(s, i - 1)

CommasOutside(s) == {i \in 1..Len(s) : Ch(s, i) = "," /\ OpenAt(s, i) = 0}
CommasAtDepthZero(s) == {i \in 1..Len(s) : Ch(s, i) = "," /\ SignedDepth(s, i) = 0}

\* The pieces of s from position p on when it is cut at the given commas,
\* and the pieces without a blank last one.
RECURSIVE PiecesFrom(_, _, _)
PiecesFrom(s, cuts, p) ==
    IF {c \in cuts : c >= p} = {} THEN <<SubSeq(s, p, Len(s))>>
    ELSE <<SubSeq(s, p, FirstIn({c \in cuts : c >= p}) - 1)>>
             \o PiecesFrom(s, cuts, FirstIn({c \in cuts : c >= p}) + 1)
DropBlankLast(pieces) ==
    IF Trim(pieces[Len(pieces)]) = "" THEN SubSeq(pieces, 1, Len(pieces) - 1) ELSE pieces
CutAt(s, cuts) == DropBlankLast(PiecesFrom(s, cuts, 1))

\* s is the parts joined, apart from a blank final part that was dropped.
JoinsBackTo(parts, s) ==
    \/ Join(parts, ",") = s
    \/ /\ StartsWith(s, Join(parts, ",") \o (IF parts = <<>> THEN "" ELSE ","))
       /\ Trim(SubSeq(s, Len(Join(parts, ",")) + (IF parts = <<>> THEN 1 ELSE 2), Len(s))) = ""

\* C12 as stated: splitShadowParts cuts exactly at the commas outside all
\* parentheses, and the parts joined with ',' give back the input apart
\* from a blank final part.
C12_CutsOutsideParentheses ==
    Called("splitShadowParts") =>
        ret = CutAt(arg, CommasOutside(arg)) /\ JoinsBackTo(ret, arg)

\* C12 amended: splitShadowParts cuts exactly at the commas before which as
\* many ')' as '(' were read, which are the commas outside all parentheses
\* when no ')' comes without its '('; the parts joined with ',' give back
\* the input apart from a blank final part.
C12_CutsAtDepthZero ==
    Called("splitShadowParts") =>
        ret = CutAt(arg, CommasAtDepthZero(arg)) /\ JoinsBackTo(ret, arg)

\* A comma inside parentheses kept and a comma outside cut.
C12_Witness ==
    /\ Called("splitShadowParts")
    /\ arg = "(,),a"
    /\ ret = <<"(,)", "a">>

(***************************************************************************)
(* parseShadowValue on its own                                             *)
(***************************************************************************)
\* Shadow lists of up to MaxLayers layers.  A layer is written as a lead
\* (nothing, the keyword `inset`, or a word that begins with it), its
\* fields separated by spaces, and a color function before or after them.
MaxLayers == 2
LayerLeads == {"", "inset ", "insetx "}
FieldLists ==
    {<<>>, <<"none">>, <<"2px", "4px">>, <<"1px", "2px", "3px", "4px", "5px">>,
     <<"0", "x", "-0.5rem">>}
LayerColors ==
    {[text |-> "", first |-> FALSE],
     [text |-> "rgb(0, 0, 0, 0.5)", first |-> FALSE],
     [text |-> "oklch(0.5 0.1 200)", first |-> TRUE]}
LayerPool ==
    {[lead |-> l, fields |-> f, color |-> c] :
        l \in LayerLeads, f \in FieldLists, c \in LayerColors}
ShadowSources == SeqsUpTo(LayerPool, MaxLayers)

RenderLayer(layer) ==
    layer.lead
        \o (IF layer.color.first THEN layer.color.text \o " " ELSE "")
        \o Join(layer.fields, " ")
        \o (IF ~layer.color.first /\ layer.color.text # "" THEN " " \o layer.color.text
            ELSE "")
RenderShadow(layers) == Join([k \in 1..Len(layers) |-> RenderLayer(layers[k])], ", ")

InitShadow == InitCall(ShadowSources) /\ arg = RenderShadow(src)
CallParseShadowValue ==
    /\ fn = "none"
    /\ fn' = "parseShadowValue" /\ ret' = parseShadowValue(arg)
    /\ UNCHANGED <<vars, idx, result, hoisted, pc, src, arg, adapters, pluginVars>>

(***************************************************************************)
(* C13                                                                     *)
(***************************************************************************)
\* What a written layer says: its fields once a leading keyword `inset` is
\* taken off (a word that only begins with `inset` is a field), the value
\* of the k-th field, and the layer.
FieldsOf(layer) ==
    IF layer.lead \in {"", "inset "} THEN layer.fields
    ELSE <<Trim(layer.lead)>> \o layer.fields
FieldValue(field) == IF IsNum(parseDimension(field)) THEN parseDimension(field) ELSE Num(0)
FieldAt(fields, k) == IF k <= Len(fields) THEN FieldValue(fields[k]) ELSE Num(0)
BlackTenth == [r |-> Num(0), g |-> Num(0), b |-> Num(0), a |-> Num(1000)]
WrittenLayer(layer, inset) ==
    [x |-> FieldAt(FieldsOf(layer), 1), y |-> FieldAt(FieldsOf(layer), 2),
     blur |-> FieldAt(FieldsOf(layer), 3), spread |-> FieldAt(FieldsOf(layer), 4),
     color |-> IF layer.color.text = "" THEN BlackTenth ELSE parseColorValue(layer.color.text),
     type |-> IF inset THEN "INNER_SHADOW" ELSE "DROP_SHADOW"]
\* The layers that are not blank, in order.
RECURSIVE Written(_)
Written(layers) ==
    IF layers = <<>> THEN <<>>
    ELSE (IF Trim(RenderLayer(Head(layers))) = "" THEN <<>> ELSE <<Head(layers)>>)
             \o Written(Tail(layers))
BeginsWithKeyword(layer) == layer.lead = "inset "
BeginsWithInset(layer) == StartsWith(layer.lead, "inset")

\* C13: every layer parseShadowValue returns takes x, y, blur and spread
\* from the first four fields left once a leading keyword `inset` and the
\* color function are removed, 0 for a missing field; its color is the
\* parsed color function, black with alpha 0.1 without one; its type is
\* INNER_SHADOW exactly when the layer began with the keyword `inset`.
C13_LayerFromFields ==
    Called("parseShadowValue") =>
        ret = [k \in 1..Len(Written(src)) |->
                  WrittenLayer(Written(src)[k], BeginsWithKeyword(Written(src)[k]))]

\* C13 with the type as the code gives it: INNER_SHADOW when the layer's
\* text begins with the letters `inset`, keyword or not.
C13_LayerFromFieldsByPrefix ==
    Called("parseShadowValue") =>
        ret = [k \in 1..Len(Written(src)) |->
                  WrittenLayer(Written(src)[k], BeginsWithInset(Written(src)[k]))]

\* categorizeTokens on the one variable `--shadow-sm` with the shadow list
\* as its value.
CallCategorizeShadow ==
    /\ fn = "none"
    /\ fn' = "categorizeTokens" /\ ret' = categorizeTokens(<<CSSVariable("--shadow-sm", arg)>>)
    /\ UNCHANGED <<vars, idx, result, hoisted, pc, src, arg, adapters, pluginVars>>

NextShadow == CallParseShadowValue \/ CallCategorizeShadow
SpecShadow == InitShadow /\ [][NextShadow]_allVars

(***************************************************************************)
(* C14                                                                     *)
(***************************************************************************)
\* A written layer has a numeric field when one of its fields is a
\* dimension.
HasNumericField(layer) ==
    \E k \in 1..Len(FieldsOf(layer)) : IsNum(parseDimension(FieldsOf(layer)[k]))
NumericLayers(layers) == {k \in 1..Len(layers) : HasNumericField(layers[k])}

\* C14: parseShadowValue yields no layer for a part without numeric
\* fields, and categorizeTokens adds no shadow entry for a variable all of
\* whose layers are like that.
C14_NoLayerWithoutFields ==
    /\ Called("parseShadowValue") => Len(ret) = Cardinality(NumericLayers(Written(src)))
    /\ (Called("categorizeTokens") /\ NumericLayers(Written(src)) = {}) => ret.shadows = <<>>

(***************************************************************************)
(* Line heights: a text size with (or without) its --line-height sibling,  *)
(* after an earlier text size that may have a line height of its own.      *)
(***************************************************************************)
\* Numbers as written and what they mean.
Numerals ==
    {[text |-> "1.25", value |-> Num(12500)], [text |-> "0.875", value |-> Num(8750)],
     [text |-> "2", value |-> Num(20000)], [text |-> "0", value |-> Num(0)],
     [text |-> ".5", value |-> Num(5000)], [text |-> "0.0", value |-> Num(0)]}
CalcSpaces == {" ", ""}
OtherLineHeights == {"normal", "1.5rem", "calc(1 + 2)", "calc(1 / .)", "var(--lh)"}
SiblingForms ==
    {[kind |-> "missing"]}
    \cup [kind : {"calc"}, a : Numerals, b : Numerals, sp : CalcSpaces]
    \cup [kind : {"plain"}, n : Numerals]
    \cup [kind : {"other"}, text : OtherLineHeights]
LineHeightInputs == [earlier : BOOLEAN, sib : SiblingForms]

RenderSibling(sib) ==
    CASE sib.kind = "calc" -> "calc(" \o sib.a.text \o sib.sp \o "/" \o sib.sp \o sib.b.text \o ")"
      [] sib.kind = "plain" -> sib.n.text
      [] sib.kind = "other" -> sib.text
      [] OTHER -> ""
LineHeightVars(in) ==
    (IF in.earlier
     THEN <<CSSVariable("--text-sm", "0.875rem"), CSSVariable("--text-sm--line-height", "1.5")>>
     ELSE <<>>)
    \o <<CSSVariable("--text-base", "1rem")>>
    \o (IF in.sib.kind = "missing" THEN <<>>
        ELSE <<CSSVariable("--text-base--line-height", RenderSibling(in.sib))>>)

InitLineHeight ==
    /\ InitCall(LineHeightInputs)
    /\ arg = RenderSibling(src.sib)

CallCategorizeLineHeight ==
    /\ fn = "none"
    /\ fn' = "categorizeTokens" /\ ret' = categorizeTokens(LineHeightVars(src))
    /\ UNCHANGED <<vars, idx, result, hoisted, pc, src, arg, adapters, pluginVars>>
CallEvaluateCalc ==
    /\ fn = "none" /\ src.sib.kind # "missing"
    /\ fn' = "evaluateCalc" /\ ret' = evaluateCalc(arg)
    /\ UNCHANGED <<vars, idx, result, hoisted, pc, src, arg, adapters, pluginVars>>
NextLineHeight == CallCategorizeLineHeight \/ CallEvaluateCalc
SpecLineHeight == InitLineHeight /\ [][NextLineHeight]_allVars

(***************************************************************************)
(* C15                                                                     *)
(***************************************************************************)
\* The line height the sibling as written stands for.
WrittenLineHeight(sib) ==
    CASE sib.kind = "calc" /\ sib.b.value # Num(0) -> Div(sib.a.value, sib.b.value)
      [] sib.kind = "plain" -> sib.n.value
      [] OTHER -> Undefined
\* The typography record of the text size `base`.
BaseRecord(typography) == typography[Len(typography)]

\* C15: the lineHeight of a typography record is A/B for a sibling
\* calc(A / B), the number for a plain numeric sibling, and undefined for
\* every other sibling value, a zero divisor and a missing sibling.
C15_LineHeightFromSibling ==
    Called("categorizeTokens") =>
        /\ BaseRecord(ret.typography).name = "base"
        /\ BaseRecord(ret.typography).lineHeight = WrittenLineHeight(src.sib)

\* The part of C15 about a sibling that is there and is a calc or a plain
\* number.
C15_CalcOrPlainSibling ==
    (Called("categorizeTokens") /\ src.sib.kind \in {"calc", "plain"}) =>
        BaseRecord(ret.typography).lineHeight = WrittenLineHeight(src.sib)

(***************************************************************************)
(* oklch lightness: the number as written, with or without a percent sign. *)
(***************************************************************************)
LightnessNumbers ==
    {[text |-> "0", value |-> Num(0)], [text |-> "0.5", value |-> Num(5000)],
     [text |-> "1", value |-> Num(10000)], [text |-> "0.628", value |-> Num(6280)],
     [text |-> "1.5", value |-> Num(15000)], [text |-> "50", value |-> Num(500000)],
     [text |-> "62.8", value |-> Num(628000)], [text |-> "100", value |-> Num(1000000)]}
ChromaNumbers == {[text |-> "0", value |-> Num(0)], [text |-> "0.2", value |-> Num(2000)]}
HueNumbers ==
    {[text |-> "0", value |-> Num(0)], [text |-> "120", value |-> Num(1200000)],
     [text |-> "250", value |-> Num(2500000)]}
LightnessInputs ==
    {in \in [l : LightnessNumbers, percent : BOOLEAN, c : ChromaNumbers, h : HueNumbers] :
        in.percent \/ in.l.value.v <= Scale}
RenderOklch(in) ==
    "oklch(" \o in.l.text \o (IF in.percent THEN "%" ELSE "") \o " "
        \o in.c.text \o " " \o in.h.text \o ")"

InitLightness ==
    /\ InitCall(LightnessInputs)
    /\ arg = RenderOklch(src)
CallParseLightness ==
    /\ fn = "none"
    /\ fn' = "parseColorValue" /\ ret' = parseColorValue(arg)
    /\ UNCHANGED <<vars, idx, result, hoisted, pc, src, arg, adapters, pluginVars>>
SpecLightness == InitLightness /\ [][CallParseLightness]_allVars

(***************************************************************************)
(* C16                                                                     *)
(***************************************************************************)
\* The Color of lightness L with the chroma and hue of the input, opaque.
ColorWithLightness(in, L) == oklchToRgba(L, in.c.value, in.h.value, Num(Scale))

\* C16 as stated: a lightness written P% is read as P/100 for every P in
\* [0, 100], and a bare lightness in [0, 1] is used unchanged.
C16_PercentIsHundredth ==
    Called("parseColorValue") =>
        ret = ColorWithLightness(src, IF src.percent THEN DivInt(src.l.value, 100) ELSE src.l.value)

\* C16: a lightness written P% is read as P/100 for every P above 1 up to
\* 100 and as P itself for P in [0, 1]; a bare lightness in [0, 1] is used
\* unchanged.
C16_PercentAboveOneIsHundredth ==
    Called("parseColorValue") =>
        ret = ColorWithLightness(src, IF src.percent /\ src.l.value.v > Scale
                                      THEN DivInt(src.l.value, 100)
                                      ELSE src.l.value)

C16_Witness ==
    /\ Called("parseColorValue") /\ arg = "oklch(62.8% 0.2 250)"
    /\ src.percent /\ src.l.value = Num(628000)
    /\ ret = ColorWithLightness(src, Num(6280))

(***************************************************************************)
(* Dimensions: a signed number with one of the units, or some other text.  *)
(***************************************************************************)
DimensionNumerals ==
    {[text |-> "1", value |-> 10000], [text |-> "16", value |-> 160000],
     [text |-> "0.5", value |-> 5000], [text |-> ".5", value |-> 5000],
     [text |-> "1.", value |-> 10000], [text |-> "0", value |-> 0],
     [text |-> "1.25", value |-> 12500]}
DimensionUnits == {"", "px", "rem", "em"}
OtherDimensions ==
    {"1pt", "1%", "auto", "", "1 px", "px", "1REM", "+1px", "1e3px", "--1px",
     "1rem2", "1.2.3px", ".", "-.rem"}
DimensionInputs ==
    [kind : {"number"}, sign : {"", "-"}, n : DimensionNumerals, unit : DimensionUnits]
    \cup [kind : {"other"}, text : OtherDimensions]
RenderDimension(in) ==
    IF in.kind = "number" THEN in.sign \o in.n.text \o in.unit ELSE in.text

InitDimension ==
    /\ InitCall(DimensionInputs)
    /\ arg = RenderDimension(src)
CallParseDimension ==
    /\ fn = "none"
    /\ fn' = "parseDimension" /\ ret' = parseDimension(arg)
    /\ UNCHANGED <<vars, idx, result, hoisted, pc, src, arg, adapters, pluginVars>>
SpecDimension == InitDimension /\ [][CallParseDimension]_allVars

(***************************************************************************)
(* C17                                                                     *)
(***************************************************************************)
\* The pixels the dimension as written stands for.
WrittenDimension(in) ==
    IF in.kind = "other" THEN Null
    ELSE Num(Signed(in.sign, in.n.value) * (IF in.unit \in {"rem", "em"} THEN 16 ELSE 1))

\* C17: parseDimension gives 16*N for N rem and N em, N for N px and for
\* N alone, and null for every input with another unit or other text.
C17_PixelsOrNull ==
    Called("parseDimension") => ret = WrittenDimension(src)

\* The part of C17 about a number with one of the units or none.
C17_PixelsOfNumber ==
    (Called("parseDimension") /\ src.kind = "number") => ret = WrittenDimension(src)

(***************************************************************************)
(* Hex colours: three or four hex digits, written short (one character a   *)
(* digit) or long (each digit twice).                                      *)
(***************************************************************************)
HexDigitPool ==
    {[text |-> "0", value |-> 0], [text |-> "8", value |-> 8], [text |-> "a", value |-> 10],
     [text |-> "f", value |-> 15], [text |-> "C", value |-> 12]}
HexForms ==
    [digits : [1..3 -> HexDigitPool] \cup [1..4 -> HexDigitPool], long : BOOLEAN]
RECURSIVE RenderHexDigits(_, _, _)
RenderHexDigits(digits, long, k) ==
    IF k > Len(digits) THEN ""
    ELSE digits[k].text \o (IF long THEN digits[k].text ELSE "")
            \o RenderHexDigits(digits, long, k + 1)
RenderHex(in) == "#" \o RenderHexDigits(in.digits, in.long, 1)

InitHex ==
    /\ InitCall(HexForms)
    /\ arg = RenderHex(src)
CallParseHex ==
    /\ fn = "none"
    /\ fn' = "parseColorValue" /\ ret' = parseColorValue(arg)
    /\ UNCHANGED <<vars, idx, result, hoisted, pc, src, arg, adapters, pluginVars>>
SpecHex == InitHex /\ [][CallParseHex]_allVars

(***************************************************************************)
(* C18                                                                     *)
(***************************************************************************)
\* The channel of the digit pair dd: (16 d + d) / 255.
PairChannel(digit) == Num(((16 * digit.value + digit.value) * Scale) \div 255)
WrittenHexColor(digits) ==
    [r |-> PairChannel(digits[1]), g |-> PairChannel(digits[2]), b |-> PairChannel(digits[3]),
     a |-> IF Len(digits) = 4 THEN PairChannel(digits[4]) ELSE Num(Scale)]

\* C18: the short and the long form of a hex colour give the same Color,
\* that of the duplicated digits; the 3- and 6-digit forms have alpha 1 and
\* the 4- and 8-digit forms have alpha of the last digit pair over 255.
C18_ExpansionByDuplication ==
    Called("parseColorValue") => ret = WrittenHexColor(src.digits)

C18_Witness ==
    /\ Called("parseColorValue") /\ arg = "#f08a"
    /\ ret = [r |-> Num(Scale), g |-> Num(0), b |-> Num(5333), a |-> Num(6666)]

(***************************************************************************)
(* JSON token files: parseJsonTokens over the entries of a parsed object   *)
(***************************************************************************)
Str(s) == [t |-> "str", s |-> s]
\* Values of a top-level key: a plain string, null, or an object that may
\* have the keys size, Light and Dark (Undefined for a key it lacks).
JsonObject(size, Light, Dark) == [t |-> "obj", size |-> size, Light |-> Light, Dark |-> Dark]
LightValues == {Undefined, Str(""), Str("#fff"), Str("#000")}
DarkValues == {Undefined, Str("#111")}
JsonValues ==
    {Str("Inter"), Null}
    \cup {JsonObject(size, l, d) : size \in BOOLEAN, l \in LightValues, d \in DarkValues}
\* Keys by category and name; a key without category is its name.
JsonKeys ==
    {[category |-> "colors", name |-> "bg"], [category |-> "a", name |-> "b/bg"],
     [category |-> "", name |-> "bg"]}
WrittenKey(k) == IF k.category = "" THEN k.name ELSE k.category \o "/" \o k.name
MaxEntries == 2
JsonEntries == [key : JsonKeys, value : JsonValues]
JsonData ==
    {d \in UNION {[1..n -> JsonEntries] : n \in 0..MaxEntries} :
        \A i, j \in 1..Len(d) : i # j => d[i].key # d[j].key}
JsonInputs == [data : JsonData, strip : BOOLEAN]
\* Object.entries(data)
Entries(data) == [i \in 1..Len(data) |-> <<WrittenKey(data[i].key), data[i].value>>]

\* The name after the last '/', to set against stripPrefix.
RECURSIVE stripPrefixLast(_)
stripPrefixLast(key) ==
    IF IndexOf(key, "/") > 0
    THEN stripPrefixLast(SubSeq(key, IndexOf(key, "/") + 1, Len(key)))
    ELSE key
\* slashIdx >= 0 ? key.slice(slashIdx + 1) : key
stripPrefix(key) ==
    IF IndexOf(key, "/") > 0 THEN SubSeq(key, IndexOf(key, "/") + 1, Len(key)) ELSE key
TokenName(key, strip) == IF strip THEN stripPrefix(key) ELSE key

\* if (value.X) map[tokenName] = value.X
Truthy(v) == v.t = "str" /\ v.s # ""
AssignIfTruthy(map, tokenName, v) == IF Truthy(v) THEN MapSet(map, tokenName, v.s) ELSE map
\* One pass of the loop of parseJsonTokens.
JsonPass(maps, key, value, strip) ==
    IF value.t = "str" THEN maps
    ELSE IF value.t = "obj" /\ value.size THEN maps
    ELSE IF value.t = "obj" /\ (value.Light # Undefined \/ value.Dark # Undefined)
    THEN [light |-> AssignIfTruthy(maps.light, TokenName(key, strip), value.Light),
          dark |-> AssignIfTruthy(maps.dark, TokenName(key, strip), value.Dark)]
    ELSE maps
RECURSIVE JsonPasses(_, _, _, _)
JsonPasses(maps, entries, strip, k) ==
    IF k > Len(entries) THEN maps
    ELSE JsonPasses(JsonPass(maps, entries[k][1], entries[k][2], strip), entries, strip, k + 1)
parseJsonTokens(entries, strip) ==
    JsonPasses([light |-> EmptyMap, dark |-> EmptyMap], entries, strip, 1)

InitJson ==
    /\ InitCall(JsonInputs)
    /\ arg = Entries(src.data)
CallParseJsonTokens ==
    /\ fn = "none"
    /\ fn' = "parseJsonTokens" /\ ret' = parseJsonTokens(arg, src.strip)
    /\ UNCHANGED <<vars, idx, result, hoisted, pc, src, arg, adapters, pluginVars>>
SpecJson == InitJson /\ [][CallParseJsonTokens]_allVars

(***************************************************************************)
(* C19                                                                     *)
(***************************************************************************)
\* The name an entry is recorded under: the key, or with stripping the
\* part after the category.
RecordedName(k, strip) == IF strip /\ k.category # "" THEN k.name ELSE WrittenKey(k)
\* The value is an object without `size` that has the mode key.
HasLight(value) == value.t = "obj" /\ ~value.size /\ value.Light # Undefined
HasDark(value) == value.t = "obj" /\ ~value.size /\ value.Dark # Undefined
RecordedNames(data, strip) == {RecordedName(data[i].key, strip) : i \in 1..Len(data)}

\* C19 as stated: a key is in the light map exactly when its value is an
\* object with no `size` key and a `Light` key, and it maps to that Light
\* value; the same for Dark; the recorded name is the key, or with prefix
\* stripping the key after its first '/'.
C19_InMapIffModeKey ==
    Called("parseJsonTokens") =>
        /\ DOMAIN ret.light \subseteq RecordedNames(src.data, src.strip)
        /\ DOMAIN ret.dark \subseteq RecordedNames(src.data, src.strip)
        /\ \A i \in 1..Len(src.data) :
            /\ RecordedName(src.data[i].key, src.strip) \in DOMAIN ret.light
                    <=> HasLight(src.data[i].value)
            /\ HasLight(src.data[i].value) =>
                    ret.light[RecordedName(src.data[i].key, src.strip)] = src.data[i].value.Light.s
            /\ RecordedName(src.data[i].key, src.strip) \in DOMAIN ret.dark
                    <=> HasDark(src.data[i].value)
            /\ HasDark(src.data[i].value) =>
                    ret.dark[RecordedName(src.data[i].key, src.strip)] = src.data[i].value.Dark.s

\* The entries recorded under `name` whose value is an object without
\* `size` and with a non-empty Light (Dark) string.
LightWriters(data, strip, name) ==
    {i \in 1..Len(data) : /\ RecordedName(data[i].key, strip) = name
                          /\ HasLight(data[i].value) /\ data[i].value.Light.s # ""}
DarkWriters(data, strip, name) ==
    {i \in 1..Len(data) : /\ RecordedName(data[i].key, strip) = name
                          /\ HasDark(data[i].value) /\ data[i].value.Dark.s # ""}
Last(S) == CHOOSE i \in S : \A j \in S : j <= i

\* C19: a recorded name is in the light map exactly when some entry
\* recorded under it is an object with no `size` key and a non-empty Light
\* string, and it maps to the Light of the last such entry; the same for
\* Dark; the recorded name is the key, or with prefix stripping the key
\* after its first '/' (the whole key when it has none).
C19_LastModeValueWins ==
    Called("parseJsonTokens") =>
        /\ DOMAIN ret.light \subseteq RecordedNames(src.data, src.strip)
        /\ DOMAIN ret.dark \subseteq RecordedNames(src.data, src.strip)
        /\ \A name \in RecordedNames(src.data, src.strip) :
            /\ name \in DOMAIN ret.light <=> LightWriters(src.data, src.strip, name) # {}
            /\ name \in DOMAIN ret.light =>
                    ret.light[name] = src.data[Last(LightWriters(src.data, src.strip, name))].value.Light.s
            /\ name \in DOMAIN ret.dark <=> DarkWriters(src.data, src.strip, name) # {}
            /\ name \in DOMAIN ret.dark =>
                    ret.dark[name] = src.data[Last(DarkWriters(src.data, src.strip, name))].value.Dark.s

C19_Witness ==
    /\ Called("parseJsonTokens") /\ src.strip /\ Len(src.data) = 2
    /\ arg[1][1] = "colors/bg" /\ arg[2][1] = "bg"
    /\ src.data[1].value = JsonObject(FALSE, Str("#fff"), Str("#111"))
    /\ src.data[2].value = JsonObject(FALSE, Str("#000"), Undefined)
    /\ ret.light = [n \in {"bg"} |-> "#000"] /\ ret.dark = [n \in {"bg"} |-> "#111"]

(***************************************************************************)
(* The adapter registry: registerAdapter calls, then resolveAdapters       *)
(***************************************************************************)
MaxRegistered == 2
RegisterIds == {"tailwindcss", "x", "y"}
DependencyLists ==
    {<<>>, <<"tailwindcss">>, <<"x">>, <<"y">>, <<"y", "tailwindcss">>, <<"x", "x">>,
     <<"ghost", "shadcn">>}
IdLists ==
    {<<>>, <<"x">>, <<"shadcn", "x">>, <<"x", "shadcn", "x">>, <<"ghost", "y">>,
     <<"coss", "base-ui">>, <<"tailwindcss">>}
\* The entries that registerAdapter calls have added or replaced.
Registered(registry) ==
    {id \in DOMAIN registry : id \notin DOMAIN BuiltinAdapters \/ registry[id] # BuiltinAdapters[id]}

InitRegistry ==
    /\ InitCall({<<>>})
    /\ arg = <<>>
\* adapters.set(adapter.id, adapter)
registerAdapter(adapter) ==
    /\ fn = "none"
    /\ Cardinality(Registered(MapSet(adapters, adapter.id, adapter))) <= MaxRegistered
    /\ adapters' = MapSet(adapters, adapter.id, adapter)
    /\ UNCHANGED <<parserVars, pluginVars>>
RegisterAdapter ==
    \E id \in RegisterIds, deps \in DependencyLists : registerAdapter(Adapter(id, deps))
\* ret is the returned list with the visited set and the number of
\* invocations of resolve at the return.
CallResolveAdapters ==
    /\ fn = "none"
    /\ \E ids \in IdLists : arg' = ids /\ ret' = resolveAdapters(adapters, ids)
    /\ fn' = "resolveAdapters"
    /\ UNCHANGED <<vars, idx, result, hoisted, pc, src, adapters, pluginVars>>
NextRegistry == RegisterAdapter \/ CallResolveAdapters
SpecRegistry == InitRegistry /\ [][NextRegistry]_allVars

(***************************************************************************)
(* C20                                                                     *)
(***************************************************************************)
Range(seq) == {seq[k] : k \in 1..Len(seq)}
\* The ids reachable from S through the dependencies of registered
\* adapters.
DependenciesOf(S, registry) ==
    UNION {Range(registry[id].dependencies) : id \in S \cap DOMAIN registry}
RECURSIVE Closure(_, _)
Closure(S, registry) ==
    IF DependenciesOf(S, registry) \subseteq S THEN S
    ELSE Closure(S \cup DependenciesOf(S, registry), registry)
Reachable(ids, registry) == Closure(Range(ids), registry) \cap DOMAIN registry
Acyclic(registry) ==
    \A id \in DOMAIN registry : id \notin Closure(Range(registry[id].dependencies), registry)
Ids(res) == [k \in 1..Len(res) |-> res[k].id]
Position(res, id) == CHOOSE k \in 1..Len(res) : res[k].id = id
RECURSIVE DependencyCount(_, _)
DependencyCount(res, k) ==
    IF k > Len(res) THEN 0 ELSE Len(res[k].dependencies) + DependencyCount(res, k + 1)

\* C20: resolveAdapters returns after one invocation of resolve for each
\* id given and each dependency of a returned adapter; it returns every
\* registered adapter reachable from the ids exactly once and nothing for
\* an unknown id; when the registered dependencies are acyclic every
\* returned adapter stands after all of its registered dependencies.
C20_ReachableOnceInOrder ==
    Called("resolveAdapters") =>
        /\ ret.calls = Len(arg) + DependencyCount(ret.result, 1)
        /\ \A i, j \in 1..Len(ret.result) : i # j => ret.result[i].id # ret.result[j].id
        /\ Range(Ids(ret.result)) = Reachable(arg, adapters)
        /\ \A i \in 1..Len(ret.result) : ret.result[i] = adapters[ret.result[i].id]
        /\ Acyclic(adapters) =>
              \A i \in 1..Len(ret.result) :
                  \A d \in Range(ret.result[i].dependencies) \cap DOMAIN adapters :
                      Position(ret.result, d) < i

C20_Witness ==
    /\ Called("resolveAdapters") /\ arg = <<"shadcn", "x">>
    /\ Acyclic(adapters)
    /\ "x" \in DOMAIN adapters /\ adapters["x"].dependencies = <<"ghost", "shadcn">>
    /\ "y" \notin DOMAIN adapters
    /\ Ids(ret.result) = <<"tailwindcss", "shadcn", "x">>

\* A registry with a dependency cycle, resolved from inside the cycle.
C20_CycleWitness ==
    /\ Called("resolveAdapters") /\ arg = <<"x">>
    /\ "x" \in DOMAIN adapters /\ adapters["x"].dependencies = <<"y">>
    /\ "y" \in DOMAIN adapters /\ adapters["y"].dependencies = <<"x">>
    /\ Ids(ret.result) = <<"y", "x">>


(***************************************************************************)
(* The fetcher (src/src/core/fetcher.ts): the cache under interleaved      *)
(* fetchRawFromGitHub, fetchRawUrl and clearCache calls.  A fetch call     *)
(* runs to its first await when it starts, and resumes when the response   *)
(* and then the text arrive.                                               *)
(***************************************************************************)
MaxCalls == 3
MaxClears == 2
buildRawUrl(owner, repo, path, branch) ==
    "https://raw.githubusercontent.com/" \o owner \o "/" \o repo \o "/" \o branch \o "/" \o path
Urls == {buildRawUrl("o", "r", "theme.css", "main"), "https://example.com/x.css"}
Texts == {"a", "b"}

TextsOf(pairs, url) == {t \in Texts : <<url, t>> \in pairs}
\* The call up to its first await: a cached url returns its text, another
\* url issues the request.
StartedCall(n, name, url) ==
    [fn |-> name, url |-> url,
     pc |-> IF url \in DOMAIN n.cache THEN "returned" ELSE "fetching",
     requested |-> url \notin DOMAIN n.cache,
     text |-> IF url \in DOMAIN n.cache THEN n.cache[url] ELSE "",
     afterOk |-> TextsOf(n.okTexts, url),
     afterFailure |-> url \in n.failed,
     firstAfterClear |-> n.clears > 0 /\ n.sinceClear = 0]
StartFetch(n, name, url) ==
    [n EXCEPT !.calls = Append(@, StartedCall(n, name, url)),
              !.sinceClear = @ + 1,
              !.failed = @ \ {url}]
\* fetch rejected, or `!response.ok`, or response.text() rejected: the
\* call throws.
FailCall(n, i) ==
    [n EXCEPT !.calls[i].pc = "thrown", !.failed = @ \cup {n.calls[i].url}]
\* `await fetch(url)` gave an ok response.
RespondOk(n, i) == [n EXCEPT !.calls[i].pc = "reading"]
\* `await response.text()` gave the text: cache.set(url, text); return text
ReturnText(n, i, t) ==
    [n EXCEPT !.calls[i].pc = "returned", !.calls[i].text = t,
              !.cache = MapSet(@, n.calls[i].url, t),
              !.okTexts = @ \cup {<<n.calls[i].url, t>>},
              !.failed = @ \ {n.calls[i].url}]
\* cache.clear()
clearCache(n) ==
    [n EXCEPT !.cache = NoText, !.clears = @ + 1, !.sinceClear = 0, !.okTexts = {}]

InitFetcher ==
    /\ InitCall({"fetcher"})
    /\ arg = <<>>
NetStep(next) ==
    /\ net' = next
    /\ UNCHANGED <<parserVars, adapters, run, posted, doc, store>>
FetchRawFromGitHub ==
    /\ Len(net.calls) < MaxCalls
    /\ NetStep(StartFetch(net, "fetchRawFromGitHub", buildRawUrl("o", "r", "theme.css", "main")))
FetchRawUrl ==
    /\ Len(net.calls) < MaxCalls
    /\ \E url \in Urls : NetStep(StartFetch(net, "fetchRawUrl", url))
ResponseArrives ==
    \E i \in 1..Len(net.calls) :
        /\ net.calls[i].pc = "fetching"
        /\ \/ NetStep(RespondOk(net, i))
           \/ NetStep(FailCall(net, i))
TextArrives ==
    \E i \in 1..Len(net.calls) :
        /\ net.calls[i].pc = "reading"
        /\ \/ \E t \in Texts : NetStep(ReturnText(net, i, t))
           \/ NetStep(FailCall(net, i))
ClearCache ==
    /\ net.clears < MaxClears
    /\ NetStep(clearCache(net))
NextFetcher == FetchRawFromGitHub \/ FetchRawUrl \/ ResponseArrives \/ TextArrives \/ ClearCache
SpecFetcher == InitFetcher /\ [][NextFetcher]_allVars

(***************************************************************************)
(* C23                                                                     *)
(***************************************************************************)
\* C23: a call for a url started after a fetch of it completed and before
\* the next clearCache returns that text without a request; the next call
\* for a url after a failed fetch of it issues a request; the next call
\* after clearCache issues a request.
C23_CacheUntilCleared ==
    \A i \in 1..Len(net.calls) :
        /\ net.calls[i].afterOk # {} =>
               /\ ~net.calls[i].requested
               /\ net.calls[i].afterOk = {net.calls[i].text}
        /\ net.calls[i].afterFailure => net.calls[i].requested
        /\ net.calls[i].firstAfterClear => net.calls[i].requested

\* The first call after a clearCache returned from the cache: a fetch
\* that was in flight over the clearCache had stored its text since.
C23_StaleAfterClear ==
    \E i \in 1..Len(net.calls) :
        net.calls[i].firstAfterClear /\ ~net.calls[i].requested

\* The part of C23 that holds in every interleaving: a call started after
\* a completed fetch of its url and before the next clearCache issues no
\* request.
C23_NoRequestOnceCached ==
    \A i \in 1..Len(net.calls) :
        net.calls[i].afterOk # {} => ~net.calls[i].requested

(***************************************************************************)
(* importPrimitives on an empty document: one call on a token set with a   *)
(* combination of category flags.                                          *)
(***************************************************************************)
\* A token set as categorizeTokens returns it for a Tailwind theme: two
\* colours, one token in most families, a text size with a line height,
\* named and numbered line heights.
ColorToken(path, raw) == [path |-> path, figmaColor |-> parseColorValue(raw), rawValue |-> raw]
SmallTokens ==
    [EmptyTokenSet EXCEPT
        !.colors = <<ColorToken(<<"red", "500">>, "#ef4444"), ColorToken(<<"white">>, "#fff")>>,
        !.radius = <<ParsedFloat(<<"md">>, Num(60000), "0.375rem")>>,
        !.blur = <<ParsedFloat(<<"sm">>, Num(80000), "8px")>>,
        !.backdropBlur = <<ParsedFloat(<<"lg">>, Num(160000), "16px")>>,
        !.opacity = <<ParsedFloat(<<"50">>, Num(5000), "0.5")>>,
        !.shadows = <<[name |-> "drop-shadow/sm", shadows |-> parseShadowValue("0 1px 2px #000"),
                       rawValue |-> "0 1px 2px #000"]>>,
        !.typography = <<TypographyToken("text-lg", Num(180000), "1.125rem",
                                         [NoHoisted EXCEPT !.lineHeight = Num(17500)])>>,
        !.fonts = <<[name |-> "sans", family |-> "ui-sans-serif",
                     rawValue |-> "ui-sans-serif, system-ui"]>>,
        !.fontWeights = <<ParsedFloat(<<"bold">>, Num(7000000), "700")>>,
        !.leading = <<ParsedFloat(<<"tight">>, Num(12500), "1.25"),
                      ParsedFloat(<<"6">>, Num(15000), "1.5")>>,
        !.tracking = <<ParsedFloat(<<"wide">>, Num(4000), "0.025em")>>,
        !.breakpoints = <<ParsedFloat(<<"md">>, Num(7680000), "48rem")>>,
        !.containers = <<ParsedFloat(<<"md">>, Num(4480000), "28rem")>>,
        !.maxWidth = <<ParsedFloat(<<"md">>, Num(4480000), "28rem")>>,
        !.borderWidth = <<ParsedFloat(<<"2">>, Num(20000), "2px")>>,
        !.skew = <<ParsedFloat(<<"3">>, Num(30000), "3")>>]
\* Text sizes without line heights, a font that is not `sans`, opacities.
TextTokens ==
    [EmptyTokenSet EXCEPT
        !.typography = <<TypographyToken("text-sm", Num(140000), "14px", NoHoisted),
                         TypographyToken("text-base", Num(160000), "1rem",
                                         [NoHoisted EXCEPT !.letterSpacing = Num(100)])>>,
        !.fonts = <<[name |-> "mono", family |-> "ui-monospace", rawValue |-> "ui-monospace"]>>,
        !.opacity = <<ParsedFloat(<<"0">>, Num(0), "0"), ParsedFloat(<<"100">>, Num(10000), "1")>>,
        !.leading = <<ParsedFloat(<<"normal">>, Num(15000), "1.5")>>,
        !.tracking = <<ParsedFloat(<<"normal">>, Num(160), "0.01em")>>]
\* A palette of one colour more than the interval of the colour reports.
PaletteColor(k) ==
    [path |-> <<"gray", NumberToString(Num(k * Scale))>>,
     figmaColor |-> [r |-> Num(k * 100), g |-> Num(k * 100), b |-> Num(k * 100),
                     a |-> Num(Scale)],
     rawValue |-> "gray"]
Palette == [EmptyTokenSet EXCEPT !.colors = [k \in 1..(ReportEvery + 1) |-> PaletteColor(k)],
                                 !.opacity = <<ParsedFloat(<<"50">>, Num(5000), "0.5")>>]
TokenSets == {SmallTokens, TextTokens, Palette, EmptyTokenSet}

\* ImportOptions with the given flags true
OptionsWith(name, on) == [flag \in Flags |-> flag \in on] @@ [collectionName |-> name]
FlagSets ==
    {Flags, {}} \cup {{flag} : flag \in Flags} \cup {Flags \ {flag} : flag \in Flags}
PrimitiveInputs ==
    [tokens : TokenSets, options : {OptionsWith("TailwindCSS", on) : on \in FlagSets},
     loads : {"family", "none"}]

InitPrimitives ==
    /\ InitCall(PrimitiveInputs)
    /\ arg = src
\* ret is the list of reports passed to onProgress.
CallImportPrimitives ==
    /\ fn = "none"
    /\ fn' = "importPrimitives"
    /\ doc' = importPrimitives(doc, arg.tokens, arg.options, arg.loads).doc
    /\ ret' = importPrimitives(doc, arg.tokens, arg.options, arg.loads).reports
    /\ UNCHANGED <<vars, idx, result, hoisted, pc, src, arg, adapters, run, posted, net, store>>
SpecPrimitives == InitPrimitives /\ [][CallImportPrimitives]_allVars

(***************************************************************************)
(* C25                                                                     *)
(***************************************************************************)
\* The groups under which a category's variables and styles are named.
GroupsOf(flag) ==
    CASE flag = "importColors" -> {"colors/"}
      [] flag = "importSpacing" -> {"spacing/"}
      [] flag = "importRadius" -> {"radius/"}
      [] flag = "importShadows" -> {"drop-shadow/", "inset-shadow/", "text-shadow/"}
      [] flag = "importBlur" -> {"blur/", "backdrop-blur/"}
      [] flag = "importTypography" ->
             {"typography/size/", "typography/family/", "typography/letter-spacing/", "text-"}
      [] flag = "importBreakpoints" -> {"breakpoint/"}
      [] flag = "importContainers" -> {"container/"}
      [] flag = "importFontWeights" -> {"typography/weight/"}
      [] flag = "importTracking" -> {"typography/tracking/"}
      [] flag = "importLeading" -> {"typography/leading/"}
      [] flag = "importMaxWidth" -> {"max-width/"}
      [] flag = "importBorderWidth" -> {"border-width/"}
      [] flag = "importOpacity" -> {"opacity/"}
      [] flag = "importSkew" -> {"skew/"}
NamesIn(d) ==
    {d.variables[i].name : i \in 1..Len(d.variables)}
        \cup {d.styles[i].name : i \in 1..Len(d.styles)}
Under(name, groups) == \E group \in groups : StartsWith(name, group)

\* C25: importPrimitives writes no variable or style named under the
\* group of a family whose category flag is false.
C25_OnlyFlaggedFamilies ==
    Called("importPrimitives") =>
        \A flag \in Flags :
            ~arg.options[flag] => \A name \in NamesIn(doc) : ~Under(name, GroupsOf(flag))

\* The part of C25 that holds: the flags other than importOpacity,
\* importLeading and importTracking.
C25_OtherFamilies ==
    Called("importPrimitives") =>
        \A flag \in Flags \ {"importOpacity", "importLeading", "importTracking"} :
            ~arg.options[flag] => \A name \in NamesIn(doc) : ~Under(name, GroupsOf(flag))

\* importPrimitives with importOpacity false wrote an opacity variable.
C25_OpacityWritten ==
    /\ Called("importPrimitives")
    /\ ~arg.options.importOpacity
    /\ \E name \in NamesIn(doc) : StartsWith(name, "opacity/")

(***************************************************************************)
(* C26                                                                     *)
(***************************************************************************)
\* C26: in an importPrimitives run every report has 0 <= current <=
\* total, current never decreases from one report to the next, and the
\* last report has phase 'Done' with current = total.
C26_ProgressWithinTotal ==
    Called("importPrimitives") =>
        /\ \A k \in 1..Len(ret) : 0 <= ret[k].current /\ ret[k].current <= ret[k].total
        /\ \A k \in 1..(Len(ret) - 1) : ret[k].current <= ret[k + 1].current
        /\ Len(ret) >= 1
        /\ ret[Len(ret)].phase = "Done"
        /\ ret[Len(ret)].current = ret[Len(ret)].total

\* A run over the palette with every flag true reported the colours phase
\* again at current = 20 and ended with Done at the total.
C26_Witness ==
    /\ Called("importPrimitives")
    /\ arg.tokens = Palette
    /\ arg.options.importColors /\ arg.options.importOpacity
    /\ \E k \in 2..Len(ret) : ret[k].phase = "Colors" /\ ret[k].current = ReportEvery
    /\ ret[Len(ret)] = [current |-> ReportEvery + 3, total |-> ReportEvery + 3, phase |-> "Done"]

(***************************************************************************)
(* The UI store (src/src/ui/store.ts): the view and the selected library   *)
(* ids under setView, toggleLibrary, setLibrarySelected and reset.  fn and *)
(* arg record the last store action and its arguments.                     *)
(***************************************************************************)
LibraryIds == {"tailwindcss", "shadcn", "base-ui", "coss"}
Views == {"dashboard", "config", "importing"}

\* ids.includes(id), ids.filter(libId => libId !== id), [...ids, id]
Selected(state, id) == \E i \in 1..Len(state.selectedLibraryIds) : state.selectedLibraryIds[i] = id
Without(ids, id) == SelectSeq(ids, LAMBDA libId : libId # id)
\* toggleLibrary without its `tailwindcss` guard, to set against
\* toggleLibrary.
toggleAny(state, id) ==
    [state EXCEPT !.selectedLibraryIds =
        IF Selected(state, id) THEN Without(@, id) ELSE Append(@, id)]
toggleLibrary(state, id) ==
    IF id = "tailwindcss" THEN state
    ELSE [state EXCEPT !.selectedLibraryIds =
              IF Selected(state, id) THEN Without(@, id) ELSE Append(@, id)]
setLibrarySelected(state, id, selected) ==
    IF id = "tailwindcss" THEN state
    ELSE IF selected /\ ~Selected(state, id)
    THEN [state EXCEPT !.selectedLibraryIds = Append(@, id)]
    ELSE IF ~selected /\ Selected(state, id)
    THEN [state EXCEPT !.selectedLibraryIds = Without(@, id)]
    ELSE state

InitStore ==
    /\ InitCall({"store"})
    /\ arg = <<>>
StoreAction(name, args, next) ==
    /\ fn' = name /\ arg' = args
    /\ store' = next
    /\ UNCHANGED <<vars, idx, result, hoisted, pc, src, ret, adapters, run, posted, doc, net>>
SetView == \E view \in Views : StoreAction("setView", <<view>>, [store EXCEPT !.view = view])
ToggleLibrary ==
    \E id \in LibraryIds : StoreAction("toggleLibrary", <<id>>, toggleLibrary(store, id))
SetLibrarySelected ==
    \E id \in LibraryIds, selected \in BOOLEAN :
        StoreAction("setLibrarySelected", <<id, selected>>,
                    setLibrarySelected(store, id, selected))
Reset == StoreAction("reset", <<>>, InitialStore)
NextStore == SetView \/ ToggleLibrary \/ SetLibrarySelected \/ Reset
SpecStore == InitStore /\ [][NextStore]_allVars

(***************************************************************************)
(* C27                                                                     *)
(***************************************************************************)
NoIdTwice(ids) == \A i, j \in 1..Len(ids) : ids[i] = ids[j] => i = j
\* The step is a store action on `tailwindcss` that could deselect it.
DeselectsTailwind ==
    \/ fn' = "toggleLibrary" /\ arg' = <<"tailwindcss">>
    \/ fn' = "setLibrarySelected" /\ arg' = <<"tailwindcss", FALSE>>

\* C27: after any sequence of toggleLibrary, setLibrarySelected and reset,
\* selectedLibraryIds contains 'tailwindcss' and no id twice, and
\* toggleLibrary('tailwindcss') and setLibrarySelected('tailwindcss',
\* false) leave the store unchanged.
C27_TailwindStaysSelected ==
    /\ [](Selected(store, "tailwindcss") /\ NoIdTwice(store.selectedLibraryIds))
    /\ [][DeselectsTailwind => store' = store]_allVars

\* toggleLibrary('tailwindcss') was the last action, on a store with
\* three libraries selected.
C27_Witness ==
    /\ fn = "toggleLibrary" /\ arg = <<"tailwindcss">>
    /\ store.selectedLibraryIds = <<"tailwindcss", "coss", "shadcn">>

(***************************************************************************)
(* Shadow names: categorizeTokens on one variable `--<prefix>-<rest>` of   *)
(* one of the four shadow prefixes.                                        *)
(***************************************************************************)
ShadowPrefixes == {"shadow", "inset-shadow", "drop-shadow", "text-shadow"}
ShadowRests ==
    {"sm", "2xl", "", "inner", "inner-lg", "innermost", "shadow-x", "inset-shadow-md",
     "color-red"}
ShadowTexts ==
    {"0 1px 2px #000", "0 1px #000, 0 2px 4px red", "inset 0 2px 4px rgb(0 0 0 / 0.05)",
     "none", "", "4px"}
ShadowNameInputs == [prefix : ShadowPrefixes, rest : ShadowRests, raw : ShadowTexts]

InitShadowName ==
    /\ InitCall(ShadowNameInputs)
    /\ arg = CSSVariable("--" \o src.prefix \o "-" \o src.rest, src.raw)
CallCategorizeNamed ==
    /\ fn = "none"
    /\ fn' = "categorizeTokens" /\ ret' = categorizeTokens(<<arg>>)
    /\ UNCHANGED <<vars, idx, result, hoisted, pc, src, arg, adapters, pluginVars>>
SpecShadowName == InitShadowName /\ [][CallCategorizeNamed]_allVars

(***************************************************************************)
(* C28                                                                     *)
(***************************************************************************)
\* The token name the variable as written stands for.
WrittenShadowName(in) ==
    (IF in.prefix = "shadow" THEN "drop-shadow" ELSE in.prefix) \o "/" \o in.rest
ShadowInner(in) == in.prefix = "shadow" /\ in.rest \in {"inner", "inner-lg", "innermost"}

\* C28: every shadow token of categorizeTokens has at least one layer and
\* the name inset-shadow/<rest>, drop-shadow/<rest> or text-shadow/<rest>
\* of its variable, `shadow-<x>` giving drop-shadow/<x>, and a variable
\* whose name begins with shadow-inner produces no token in any family.
C28_ShadowNames ==
    Called("categorizeTokens") =>
        /\ \A k \in 1..Len(ret.shadows) :
               /\ Len(ret.shadows[k].shadows) >= 1
               /\ ret.shadows[k].name = WrittenShadowName(src)
        /\ ShadowInner(src) => ret = EmptyTokenSet

\* A `shadow-sm` variable became the token drop-shadow/sm with two layers.
C28_Witness ==
    /\ Called("categorizeTokens")
    /\ src.prefix = "shadow" /\ src.rest = "sm"
    /\ Len(ret.shadows) = 1
    /\ ret.shadows[1].name = "drop-shadow/sm"
    /\ Len(ret.shadows[1].shadows) = 2

\* A `shadow-inner-lg` variable with a shadow as its value left the token
\* set empty.
C28_InnerWitness ==
    /\ Called("categorizeTokens")
    /\ src.prefix = "shadow" /\ src.rest = "inner-lg" /\ src.raw = "0 1px 2px #000"
    /\ ret = EmptyTokenSet

(***************************************************************************)
(* Imports one after the other on one document: importPrimitives and       *)
(* importThemeTokens, each any number of times up to MaxImports in all.    *)
(***************************************************************************)
MaxImports == 3
\* Theme tokens as extractThemeTokens returns them: a colour equal to a
\* primitive, one within the tolerance of a primitive, one that matches
\* none, a value that is no colour, a key with a dark value only and one
\* with a light value only.
LightTokens ==
    <<<<"--background", "#fff">>, <<"--primary", "#ee4444">>, <<"--foreground", "#0a0a0a">>,
      <<"--radius", "0.5rem">>, <<"--ring", "#e04444">>>>
DarkTokens ==
    <<<<"--background", "#0a0a0a">>, <<"--primary", "#ef4444">>, <<"--radius", "0.5rem">>,
      <<"--only-dark", "#ffffff">>>>
\* A value on which parseColorValue throws, before a colour.
ThrowingTokens == <<<<"--background", "#fff">>, <<"--border", "constructor">>,
                    <<"--primary", "#ef4444">>>>
ThemeOptionsOf(name, light, dark) ==
    [collectionName |-> name, primitiveCollectionName |-> "TailwindCSS", lightTokens |-> light,
     darkTokens |-> dark]
ThemeInputs ==
    {ThemeOptionsOf("Theme", LightTokens, DarkTokens),
     ThemeOptionsOf("Theme", DarkTokens, LightTokens),
     ThemeOptionsOf("Theme", ThrowingTokens, DarkTokens),
     ThemeOptionsOf("TailwindCSS", LightTokens, DarkTokens)}
PrimitiveSyncInputs ==
    [tokens : {SmallTokens, TextTokens},
     options : {OptionsWith("TailwindCSS", Flags), OptionsWith("TailwindCSS", {"importColors"}),
                OptionsWith("Theme", {"importColors", "importShadows"})},
     loads : {"family"}]

Imports == IF run = IdleRun THEN 0 ELSE run.imports
InitSync ==
    /\ InitCall({""})
    /\ arg = [options |-> Null]
\* One import f(input) on the document, `out` being what it leaves: run
\* keeps the document before the call and whether the call repeats the
\* one before it.
Imported(f, input, out) ==
    /\ Imports < MaxImports
    /\ fn' = f
    /\ arg' = input
    /\ doc' = out.doc
    /\ ret' = [reports |-> out.reports, thrown |-> out.thrown]
    /\ run' = [phase |-> "synced", imports |-> Imports + 1, before |-> doc,
               repeated |-> fn = f /\ arg = input]
    /\ UNCHANGED <<vars, idx, result, hoisted, pc, src, adapters, posted, net, store>>
ImportPrimitives ==
    \E input \in PrimitiveSyncInputs :
        Imported("importPrimitives", input,
                 importPrimitives(doc, input.tokens, input.options, input.loads))
ImportThemeTokens ==
    \E options \in ThemeInputs :
        Imported("importThemeTokens", [options |-> options], importThemeTokens(doc, options))
NextSync == ImportPrimitives \/ ImportThemeTokens
SpecSync == InitSync /\ [][NextSync]_allVars

(***************************************************************************)
(* C29                                                                     *)
(***************************************************************************)
\* What identifies a variable and a style in the document
VariableKeys(d) ==
    {<<d.variables[i].collection, d.variables[i].name, d.variables[i].type>> :
        i \in 1..Len(d.variables)}
StyleKeys(d) == {<<d.styles[i].kind, d.styles[i].name>> : i \in 1..Len(d.styles)}
CollectionNames(d) == {d.collections[i].name : i \in 1..Len(d.collections)}
\* No two variables with one (collection, name, type), no two styles with
\* one (kind, name), no two collections with one name
NothingTwice(d) ==
    /\ Cardinality(VariableKeys(d)) = Len(d.variables)
    /\ Cardinality(StyleKeys(d)) = Len(d.styles)
    /\ Cardinality(CollectionNames(d)) = Len(d.collections)
\* The step repeats the import before it: same function, same input.
RepeatsImport == run' # run /\ run'.repeated
SameKeys(d, e) ==
    /\ VariableKeys(d) = VariableKeys(e)
    /\ StyleKeys(d) = StyleKeys(e)
    /\ CollectionNames(d) = CollectionNames(e)

\* C29: after any sequence of imports the document has at most one
\* variable per (collection, name, type), one style per (kind, name) and
\* one collection per name; and an import that repeats the one before it
\* leaves the variables, styles and collections that the first run left.
C29_ImportTwiceSameSink ==
    /\ [](NothingTwice(doc))
    /\ [][RepeatsImport => SameKeys(doc', doc) /\ NothingTwice(doc')]_allVars
\* The same import ran twice in a row on a document that it had filled
\* with variables and styles.
C29_Witness ==
    /\ run # IdleRun
    /\ run.repeated
    /\ Len(doc.variables) > 3
    /\ Len(doc.styles) > 0
    /\ doc = run.before
\* A repeated import leaves the whole document as the first run left it,
\* values included, unless it is a theme import into the collection it
\* resolves aliases from (there the second run finds the theme variables
\* of the first among the primitives).
OwnPrimitives ==
    /\ fn' = "importThemeTokens"
    /\ arg'.options.collectionName = arg'.options.primitiveCollectionName
C29_SameValues == [][RepeatsImport /\ ~OwnPrimitives => doc' = doc]_allVars

(***************************************************************************)
(* C22                                                                     *)
(***************************************************************************)
\* The theme import just made, its collection in the document d (0 when
\* there is none), and the mode of that name in the collection as the
\* import left it.
ThemeOptions == arg.options
ThemeCollection(d) == CollectionNamed(d, ThemeOptions.collectionName)
ThemeModeId(name) ==
    doc.collections[ThemeCollection(doc)]
        .modes[ModeNamed(doc.collections[ThemeCollection(doc)].modes, name)].modeId
TokensOfMode(name) ==
    IF name = "Light" THEN ThemeOptions.lightTokens ELSE ThemeOptions.darkTokens
\* The colour a token value parses to, Null for a missing value and for a
\* value that is no colour.
ParsedColor(tokens, key) == ColorOrNull(ValueOf(tokens, key))
ParsesToColor(tokens, key) == ParsedColor(tokens, key) \notin {Null, Throw}
\* The colour variables of the primitive collection, in the document
\* before the import, whose value in the collection's first mode is within
\* 0.005 of the colour on each of the four channels.
PrimitiveCollection == CollectionNamed(run.before, ThemeOptions.primitiveCollectionName)
WithinTolerance(x, y) == Lt(Abs(Sub(x, y)), Num(50))
MatchingPrimitives(color) ==
    IF PrimitiveCollection = 0 THEN {}
    ELSE {i \in 1..Len(run.before.variables) :
            /\ run.before.variables[i].collection = PrimitiveCollection
            /\ run.before.variables[i].type = "COLOR"
            /\ ModeId(PrimitiveCollection, 1) \in DOMAIN run.before.variables[i].values
            /\ "r" \in DOMAIN run.before.variables[i].values[ModeId(PrimitiveCollection, 1)]
            /\ \A ch \in {"r", "g", "b", "a"} :
                   WithinTolerance(
                       run.before.variables[i].values[ModeId(PrimitiveCollection, 1)][ch],
                       color[ch])}
ExpectedValue(color) ==
    IF MatchingPrimitives(color) = {} THEN color
    ELSE Alias(CHOOSE i \in MatchingPrimitives(color) :
                   \A j \in MatchingPrimitives(color) : i <= j)
\* The theme variable of a key after the import and before it, 0 for none
CleanName(key) == ReplacePrefix(key, "--", "")
ThemeVariableOf(key) == VariableNamed(doc, ThemeCollection(doc), CleanName(key), "COLOR")
ThemeVariableBefore(key) ==
    IF ThemeCollection(run.before) = 0 THEN 0
    ELSE VariableNamed(run.before, ThemeCollection(run.before), CleanName(key), "COLOR")
\* The mode of the key's variable is as the import found it: without a
\* value when the variable is new.
ModeUntouched(key, name) ==
    ThemeVariableOf(key) > 0 =>
        IF ThemeVariableBefore(key) > 0
        THEN \/ (/\ ThemeModeId(name) \in DOMAIN run.before.variables[ThemeVariableBefore(key)].values
                 /\ ThemeModeId(name) \in DOMAIN doc.variables[ThemeVariableOf(key)].values
                 /\ doc.variables[ThemeVariableOf(key)].values[ThemeModeId(name)]
                        = run.before.variables[ThemeVariableBefore(key)].values[ThemeModeId(name)])
             \/ (/\ ThemeModeId(name) \notin DOMAIN run.before.variables[ThemeVariableBefore(key)].values
                 /\ ThemeModeId(name) \notin DOMAIN doc.variables[ThemeVariableOf(key)].values)
        ELSE ThemeModeId(name) \notin DOMAIN doc.variables[ThemeVariableOf(key)].values
ThemeKeyImported(key) ==
    /\ \A name \in {"Light", "Dark"} :
           IF ParsesToColor(TokensOfMode(name), key)
           THEN /\ ThemeVariableOf(key) > 0
                /\ ThemeModeId(name) \in DOMAIN doc.variables[ThemeVariableOf(key)].values
                /\ doc.variables[ThemeVariableOf(key)].values[ThemeModeId(name)]
                       = ExpectedValue(ParsedColor(TokensOfMode(name), key))
           ELSE ModeUntouched(key, name)
    /\ (\A name \in {"Light", "Dark"} : ~ParsesToColor(TokensOfMode(name), key))
           => ThemeVariableOf(key) = ThemeVariableBefore(key)
\* A theme import into a collection other than the primitive one
ThemeImported ==
    /\ Called("importThemeTokens")
    /\ ThemeOptions.collectionName # ThemeOptions.primitiveCollectionName
ThemeKeys ==
    {ThemeOptions.lightTokens[k][1] : k \in 1..Len(ThemeOptions.lightTokens)}
        \cup {ThemeOptions.darkTokens[k][1] : k \in 1..Len(ThemeOptions.darkTokens)}

\* C22: after importThemeTokens, for every theme token and each of the
\* modes Light and Dark whose value parses to a colour, the theme
\* variable's value in that mode is an alias to the first matching colour
\* variable of the primitive collection when there is one and the colour
\* otherwise; a mode whose value is missing or is no colour is left as it
\* was, and a token with no colour in either mode creates no variable.
C22_AliasOrRawColor ==
    ThemeImported => \A key \in ThemeKeys : ThemeKeyImported(key)
\* The same for the imports that return: no token value on which
\* parseColorValue throws.
C22_WhenNothingThrows ==
    ThemeImported /\ ~ret.thrown => \A key \in ThemeKeys : ThemeKeyImported(key)
\* An import that threw on a value left a later token with a colour
\* without its variable.
C22_LaterTokenLost ==
    /\ ThemeImported
    /\ ret.thrown
    /\ \E key \in ThemeKeys :
           /\ ParsesToColor(ThemeOptions.lightTokens, key)
           /\ ThemeVariableOf(key) = 0
\* A returning import after a primitives import wrote an alias in one mode
\* and a raw colour in another.
C22_AliasAndColor ==
    /\ ThemeImported
    /\ ~ret.thrown
    /\ \E i \in 1..Len(doc.variables) :
           /\ doc.variables[i].collection = ThemeCollection(doc)
           /\ \E m \in DOMAIN doc.variables[i].values :
                  doc.variables[i].values[m] \in {Alias(j) : j \in 1..Len(doc.variables)}
           /\ \E m \in DOMAIN doc.variables[i].values :
                  "r" \in DOMAIN doc.variables[i].values[m]

(***************************************************************************)
(* Float families: categorizeTokens on one variable of a float family with *)
(* a value that is a number, a dimension, or digits and dots that are not  *)
(* a number.                                                               *)
(***************************************************************************)
FloatNames ==
    {"--radius-md", "--blur-sm", "--backdrop-blur-sm", "--breakpoint-md", "--container-md",
     "--tracking-wide", "--text-lg", "--border-width-2", "--opacity-50", "--leading-6",
     "--font-weight-bold", "--skew-3"}
DotsAndDigits == {".", "..px", "1.2.3px", "..", "1..2rem"}
FloatValues == {"4px", "1rem", "0.5", "12", "abc", ""} \cup DotsAndDigits
FloatInputs == [name : FloatNames, raw : FloatValues]

InitFloat ==
    /\ InitCall(FloatInputs)
    /\ arg = CSSVariable(src.name, src.raw)
CallCategorizeFloat ==
    /\ fn = "none"
    /\ fn' = "categorizeTokens" /\ ret' = categorizeTokens(<<arg>>)
    /\ UNCHANGED <<vars, idx, result, hoisted, pc, src, arg, adapters, pluginVars>>
SpecFloat == InitFloat /\ [][CallCategorizeFloat]_allVars

(***************************************************************************)
(* C30                                                                     *)
(***************************************************************************)
\* The number a token of a float family carries.
TokenNumber(family, token) == IF family = "typography" THEN token.fontSize ELSE token.value

\* C30: every float token produced by categorizeTokens carries a number,
\* never NaN, and a value of digits and dots that is not a number produces
\* no token in any dimension family.
C30_FloatTokensAreReal ==
    Called("categorizeTokens") =>
        /\ \A family \in DimensionFamilies \cup NumberFamilies :
               \A k \in 1..Len(ret[family]) : IsNum(TokenNumber(family, ret[family][k]))
        /\ src.raw \in DotsAndDigits =>
               \A family \in DimensionFamilies : ret[family] = <<>>

\* categorizeTokens produced a token of a dimension family from a value
\* of digits and dots.
C30_TokenFromDots ==
    /\ Called("categorizeTokens")
    /\ src.raw \in DotsAndDigits
    /\ \E family \in DimensionFamilies : ret[family] # <<>>

(***************************************************************************)
(* code.ts: one handleImport run.  run.phase is where the run stands:      *)
(* 'fetching' while adapter.fetchAndParse() is pending, 'importing' while  *)
(* the promise of importPrimitives is pending, 'done' when no callback of  *)
(* the run is left.  run.log lists what has happened to which adapter, and *)
(* run.failed tells whether a fetch or an import has failed.               *)
(***************************************************************************)
\* What the adapters give: the type of the fetched result, the default
\* collection name, and the tokens of the result.
ResultType(id) == IF id \in {"tailwindcss", "x"} THEN "primitives" ELSE "theme"
DefaultCollectionName(id) ==
    CASE id = "tailwindcss" -> "TailwindCSS"
      [] id = "shadcn" -> "Theme"
      [] id = "base-ui" -> "Base UI"
      [] id = "coss" -> "Coss"
      [] OTHER -> "X"
PrimitiveTokensOf(id) == IF id = "tailwindcss" THEN SmallTokens ELSE TextTokens
\* The tokens of coss hold a value on which parseColorValue throws.
ThemeTokensOf(id) ==
    IF id = "coss" THEN [light |-> ThrowingTokens, dark |-> DarkTokens]
    ELSE [light |-> LightTokens, dark |-> DarkTokens]

\* The messages of postToUI
ImportProgress(progress) == [type |-> "IMPORT_PROGRESS", progress |-> progress]
ImportComplete(totalCreated) == [type |-> "IMPORT_COMPLETE", totalCreated |-> totalCreated]
ImportError(error) == [type |-> "IMPORT_ERROR", error |-> error]
\* The onProgress callback on each report of an import
PostEach(reports) == [k \in 1..Len(reports) |-> ImportProgress(reports[k])]

\* The list as resolveAdapters returned it, and after
\* adapters.sort(...): the comparator puts tailwindcss before every other
\* adapter and calls the others equal.
Unsorted(list) == list
TailwindFirst(list) ==
    SelectSeq(list, LAMBDA a : a.id = "tailwindcss")
        \o SelectSeq(list, LAMBDA a : a.id # "tailwindcss")
IdsOf(list) == [k \in 1..Len(list) |-> list[k].id]

\* `importX: payload.categories.indexOf('x') >= 0`
CategoryOf(flag) == ToLowerCase(SubSeq(flag, 7, 7)) \o SubSeq(flag, 8, Len(flag))
PrimitiveOptions(payload, id) ==
    [flag \in Flags |-> CategoryOf(flag) \in payload.categories]
        @@ [collectionName |-> DefaultCollectionName(id)]
\* `payload.collectionName || adapter.defaultCollectionName`
NameOr(name, default) == IF name = "" THEN default ELSE name
ThemeOptionsFor(payload, id) ==
    [collectionName |-> NameOr(payload.collectionName, DefaultCollectionName(id)),
     primitiveCollectionName |-> NameOr(payload.primitiveCollectionName, "TailwindCSS"),
     lightTokens |-> ThemeTokensOf(id).light,
     darkTokens |-> ThemeTokensOf(id).dark]
countPrimitiveTokens(tokens) ==
    Len(tokens.colors) + Len(tokens.spacing) + Len(tokens.radius) + Len(tokens.shadows)
        + Len(tokens.blur) + Len(tokens.typography) + Len(tokens.opacity)
        + Len(tokens.breakpoints) + Len(tokens.containers) + Len(tokens.fontWeights)
        + Len(tokens.tracking) + Len(tokens.leading) + Len(tokens.maxWidth)
        + Len(tokens.borderWidth) + Len(tokens.opacity) + Len(tokens.skew)

Logged(r, what) == [r EXCEPT !.log = Append(@, <<what, r.adapters[r.index + 1]>>)]
\* processAdapter(index) on the run r with the messages p posted so far:
\* IMPORT_COMPLETE past the last adapter, the fetch of the adapter
\* otherwise.
processAdapter(r, p, index) ==
    IF index >= Len(r.adapters)
    THEN [run |-> [r EXCEPT !.phase = "done"],
          posted |-> Append(p, ImportComplete(r.totalCreated))]
    ELSE [run |-> Logged([r EXCEPT !.phase = "fetching", !.index = index], "fetch"),
          posted |-> p]
\* handleImport up to its return
StartedRun(payload, list) ==
    [phase |-> "started", payload |-> payload, adapters |-> IdsOf(list), index |-> 0,
     totalCreated |-> 0, log |-> <<>>, failed |-> FALSE]
InitProgress == ImportProgress([current |-> 0, total |-> 1, phase |-> "Init"])
\* A catch callback: IMPORT_ERROR, and nothing of the run is left.
Caught(r, failed) == [r EXCEPT !.phase = "done", !.failed = failed]

AdapterLists ==
    {<<>>, <<"tailwindcss">>, <<"shadcn">>, <<"x", "shadcn">>, <<"coss", "base-ui">>,
     <<"x">>, <<"ghost">>}
Payloads ==
    [adapterIds : AdapterLists,
     categories : {{"colors", "opacity", "typography", "fontWeights", "shadows"}, {"colors"}},
     collectionName : {"", "Brand"},
     primitiveCollectionName : {"TailwindCSS"}]
Registries == {BuiltinAdapters, MapSet(BuiltinAdapters, "x", Adapter("x", <<>>))}

InitImport ==
    /\ vars = <<>>
    /\ idx = 1
    /\ result = EmptyTokenSet
    /\ hoisted = NoHoisted
    /\ pc = "idle"
    /\ src = ""
    /\ fn = "none" /\ arg = "" /\ ret = Null
    /\ adapters \in Registries
    /\ InitPlugin
ImportUnchanged == UNCHANGED <<vars, idx, result, hoisted, pc, src, fn, arg, ret, adapters, net, store>>
CurrentAdapter == run.adapters[run.index + 1]

HandleImport ==
    /\ run.phase = "idle"
    /\ \E payload \in Payloads :
        /\ run' = processAdapter(
                      StartedRun(payload,
                                 TailwindFirst(resolveAdapters(adapters, payload.adapterIds).result)),
                      Append(posted, InitProgress), 0).run
        /\ posted' = processAdapter(
                         StartedRun(payload,
                                    TailwindFirst(resolveAdapters(adapters,
                                                                  payload.adapterIds).result)),
                         Append(posted, InitProgress), 0).posted
    /\ UNCHANGED doc
    /\ ImportUnchanged
\* fetchAndParse rejects: the catch at lines 133-138
FetchRejects ==
    /\ run.phase = "fetching"
    /\ run' = Caught(Logged(run, "failed"), TRUE)
    /\ posted' = Append(posted, ImportError("Failed to fetch tokens"))
    /\ UNCHANGED doc
    /\ ImportUnchanged
\* fetchAndParse resolves with primitives: importPrimitives is called and
\* its promise is pending.
FetchResolvesPrimitives ==
    /\ run.phase = "fetching"
    /\ ResultType(CurrentAdapter) = "primitives"
    /\ run' = Logged([run EXCEPT !.phase = "importing"], "import")
    /\ UNCHANGED <<posted, doc>>
    /\ ImportUnchanged
\* fetchAndParse resolves with a theme: importThemeTokens runs and returns
\* its CollectionInfo or throws; `.then` of a CollectionInfo is undefined,
\* so calling it throws a TypeError; either way the catch at lines 133-138
\* posts IMPORT_ERROR.
ThemeLogged(r, thrown) ==
    IF thrown THEN Logged(Logged(r, "import"), "failed")
    ELSE Logged(Logged(r, "import"), "imported")
FetchResolvesTheme ==
    /\ run.phase = "fetching"
    /\ ResultType(CurrentAdapter) = "theme"
    /\ doc' = importThemeTokens(doc, ThemeOptionsFor(run.payload, CurrentAdapter)).doc
    /\ run' = Caught(ThemeLogged(run, importThemeTokens(doc, ThemeOptionsFor(run.payload,
                                                                              CurrentAdapter)).thrown),
                     importThemeTokens(doc, ThemeOptionsFor(run.payload, CurrentAdapter)).thrown)
    /\ posted' = Append(posted \o PostEach(importThemeTokens(doc,
                                                             ThemeOptionsFor(run.payload,
                                                                             CurrentAdapter)).reports),
                        ImportError("TypeError"))
    /\ ImportUnchanged
\* The promise of importPrimitives resolves: its writes and reports are
\* made, totalCreated grows and processAdapter(index + 1) runs.
Imported1(r) ==
    [r EXCEPT !.totalCreated = @ + countPrimitiveTokens(PrimitiveTokensOf(r.adapters[r.index + 1]))]
ImportResolves ==
    /\ run.phase = "importing"
    /\ doc' = importPrimitives(doc, PrimitiveTokensOf(CurrentAdapter),
                               PrimitiveOptions(run.payload, CurrentAdapter), "family").doc
    /\ run' = processAdapter(Imported1(Logged(run, "imported")), posted, run.index + 1).run
    /\ posted' = processAdapter(
                     Imported1(Logged(run, "imported")),
                     posted \o PostEach(importPrimitives(doc, PrimitiveTokensOf(CurrentAdapter),
                                                         PrimitiveOptions(run.payload,
                                                                          CurrentAdapter),
                                                         "family").reports),
                     run.index + 1).posted
    /\ ImportUnchanged
\* The promise of importPrimitives rejects: the catch at lines 89-94.  What
\* the import wrote before it failed is left out.
ImportRejects ==
    /\ run.phase = "importing"
    /\ run' = Caught(Logged(run, "failed"), TRUE)
    /\ posted' = Append(posted, ImportError("Import failed"))
    /\ UNCHANGED doc
    /\ ImportUnchanged
NextImport ==
    \/ HandleImport
    \/ FetchRejects
    \/ FetchResolvesPrimitives
    \/ FetchResolvesTheme
    \/ ImportResolves
    \/ ImportRejects
SpecImport == InitImport /\ [][NextImport]_allVars

(***************************************************************************)
(* C21                                                                     *)
(***************************************************************************)
Started21 == run.phase # "idle"
\* The position of an adapter in the order of the run
PositionOf(id) == CHOOSE j \in 1..Len(run.adapters) : run.adapters[j] = id
\* C21: in a handleImport run tailwindcss is the first adapter whenever it
\* is among the resolved ones; the first thing that happens is the fetch
\* of the first adapter, the fetch of any other adapter comes right after
\* the end of the import of the adapter before it, and the import of a
\* theme adapter begins after the import of tailwindcss has ended.
C21_OneAtATimeTailwindFirst ==
    Started21 =>
        /\ "tailwindcss" \in Range(run.adapters) => run.adapters[1] = "tailwindcss"
        /\ \A k \in 1..Len(run.log) :
               run.log[k][1] = "fetch" =>
                   IF PositionOf(run.log[k][2]) = 1 THEN k = 1
                   ELSE /\ k > 1
                        /\ run.log[k - 1]
                               = <<"imported", run.adapters[PositionOf(run.log[k][2]) - 1]>>
        /\ \A k \in 1..Len(run.log) :
               (/\ run.log[k][1] = "import"
                /\ ResultType(run.log[k][2]) = "theme"
                /\ "tailwindcss" \in Range(run.adapters))
                   => \E j \in 1..(k - 1) : run.log[j] = <<"imported", "tailwindcss">>
\* A run of a community primitives adapter and a theme, resolved with
\* tailwindcss in the middle: tailwindcss was imported first, then the
\* other primitives, and the theme import began.
C21_Witness ==
    /\ Started21
    /\ run.payload.adapterIds = <<"x", "shadcn">>
    /\ run.adapters = <<"tailwindcss", "x", "shadcn">>
    /\ Len(run.log) >= 8
    /\ run.log[3] = <<"imported", "tailwindcss">>
    /\ run.log[4] = <<"fetch", "x">>
    /\ run.log[8] = <<"import", "shadcn">>

(***************************************************************************)
(* C24                                                                     *)
(***************************************************************************)
Posted(type) == {k \in 1..Len(posted) : posted[k].type = type}
EndsWithOnly(type, other) ==
    /\ Cardinality(Posted(type)) = 1
    /\ Posted(other) = {}
    /\ posted[Len(posted)].type = type
\* After a failure nothing more happened to any adapter.
FailureIsLast == run.log[Len(run.log)][1] = "failed"
\* C24: a finished handleImport run in which no fetch and no import failed
\* has posted exactly one IMPORT_COMPLETE, as its last message, and no
\* IMPORT_ERROR; a finished run in which one failed has posted exactly one
\* IMPORT_ERROR, as its last message, and no IMPORT_COMPLETE, and nothing
\* happened to an adapter after the failure.  A run that has not finished
\* has posted neither.
C24_CompleteOrError ==
    /\ run.phase = "done" /\ ~run.failed => EndsWithOnly("IMPORT_COMPLETE", "IMPORT_ERROR")
    /\ run.phase = "done" /\ run.failed
           => EndsWithOnly("IMPORT_ERROR", "IMPORT_COMPLETE") /\ FailureIsLast
    /\ run.phase # "done" => Posted("IMPORT_COMPLETE") \cup Posted("IMPORT_ERROR") = {}
\* The same for the runs in which no theme import returned.
ThemeReturned ==
    \E k \in 1..Len(run.log) :
        run.log[k][1] = "imported" /\ ResultType(run.log[k][2]) = "theme"
C24_WithoutThemeReturn ==
    run.phase = "idle" \/ ThemeReturned \/ C24_CompleteOrError
\* A run in which every fetch and import succeeded, the last of them a
\* theme import, ended with IMPORT_ERROR.
C24_ErrorAfterSuccess ==
    /\ run.phase = "done"
    /\ ~run.failed
    /\ ThemeReturned
    /\ EndsWithOnly("IMPORT_ERROR", "IMPORT_COMPLETE")
\* Every finished run in which a theme import returned ended that way.
C24_ThemeAlwaysErrors ==
    run.phase = "done" /\ ~run.failed /\ ThemeReturned
        => EndsWithOnly("IMPORT_ERROR", "IMPORT_COMPLETE")
====
